---- MODULE Spec2Model ----
(***************************************************************************)
(* A model of the HLAS insurance chatbot: the MongoDB-backed session       *)
(* store (app/session_manager.py), the conversation agents and the central *)
(* orchestrator (agents/*.py).                                             *)
(*                                                                         *)
(* The conversations collection is a function from session id to the       *)
(* sequence of documents carrying that id (the unique index keeps it at    *)
(* most one long).  A document is a record of the fields the code reads or *)
(* branches on.  Language-model calls are inputs of the actions: every     *)
(* structured result the model may return is drawn from a finite set.      *)
(* Reply texts are represented by a label per distinct text template; the  *)
(* random choice among the variants of one pool is not distinguished.      *)
(* Timestamps are abstracted: last_active holds the name of the operation  *)
(* that wrote it last.  Context keys that are written but never read       *)
(* (has_greeted, live_agent_request, last_error, last_error_time,          *)
(* current_agent, information_collected) are left out of the document.     *)
(***************************************************************************)
EXTENDS Integers, Sequences, FiniteSets, TLC

VARIABLES
    db,      \* conversations_collection: session id -> documents with that id
    last,    \* the most recent completed call: operation, arguments, result
    proc     \* the callers running store operations step by step

vars == <<db, last, proc>>

----------------------------------------------------------------------------
(* Bounds of the model *)

\* update_session calls explored by the history specification
MaxUpdates == 15
\* update_session calls explored by the upsert specification
MaxStoreUpdates == 2
\* turns of a conversation
MaxTurns == 3
\* turns of the travel enquiry
MaxEnquiryTurns == 5
\* turns of a conversation with a failing store
MaxFaultTurns == 2

\* calls of run_travel_agent on one session
MaxAgentCalls == 2

\* error_count up to which the fallback manager is called
MaxErrorCount == 7

\* runs of one character in a validated text
MaxRuns == 3

\* engagement managers created by /start, and cleanups in progress at once
MaxManagers == 2
MaxCleanups == 2

MaxStageTurns == 3

MaxPaymentCalls == 2

\* frames delivered on one realtime connection
MaxFrames == 2

(* Program constants *)
MAX_CONTEXT_MESSAGES == 10

Sessions == {"s1"}
Callers == {"c1", "c2"}

Min(a, b) == IF a < b THEN a ELSE b

\* With(v, F) is F of v: the result of a call, bound to a name once
With(v, F(_)) == F(v)

----------------------------------------------------------------------------
(* Documents *)

EmptyMap == [k \in {} |-> 0]

DefaultContext ==
    [primary_product |-> "None",
     last_intent |-> "None",
     error_count |-> 0,
     recommended_plan |-> "None",
     pending_rag_question |-> "None"]

\* the $setOnInsert document of get_session
SetOnInsert ==
    [chat_history |-> <<>>,
     stage |-> "initial",
     message_count |-> 0,
     collected_info |-> EmptyMap,
     conversation_context |-> DefaultContext]

\* $set: the given keys are overwritten, every other key is kept
MongoSet(doc, kv) == kv @@ doc

Found(c, sid) == Len(c[sid]) > 0

\* find_one: the first document with the id, as a sequence of zero or one
find_one(c, sid) == IF Found(c, sid) THEN <<c[sid][1]>> ELSE <<>>

\* update_one without upsert: the first match is rewritten, no match is a no-op
update_one(c, sid, newdoc) ==
    IF Found(c, sid) THEN [c EXCEPT ![sid][1] = newdoc] ELSE c

\* the unique index on session_id
UniqueIndexAbsent == FALSE
UniqueIndex == TRUE

----------------------------------------------------------------------------
(* app/session_manager.py *)

\* the update document of get_session applied to a matched document
GetSessionDefaultsReapplied(doc) ==
    MongoSet(doc, SetOnInsert @@ [last_active |-> "get_session"])
GetSessionOnMatch(doc) ==
    MongoSet(doc, [last_active |-> "get_session"])

\* the update document of get_session applied on insert
GetSessionOnInsert == MongoSet(SetOnInsert, [last_active |-> "get_session"])

\* get_session run without interleaving: find_one_and_update(upsert=True,
\* return_document=AFTER); returns the collection and the document
get_session(c, sid) ==
    LET c2 == IF Found(c, sid)
              THEN update_one(c, sid, GetSessionOnMatch(c[sid][1]))
              ELSE [c EXCEPT ![sid] = <<GetSessionOnInsert>>]
    IN  [c |-> c2, session |-> c2[sid][1]]

PushPairTrimmed(doc, user_message, agent_response) ==
    [doc EXCEPT !.chat_history =
        SubSeq(@ \o <<[role |-> "user", content |-> user_message],
                      [role |-> "assistant", content |-> agent_response]>>,
               IF Len(@) + 2 > 2 * MAX_CONTEXT_MESSAGES
               THEN Len(@) + 3 - 2 * MAX_CONTEXT_MESSAGES ELSE 1,
               Len(@) + 2)]
PushPair(doc, user_message, agent_response) ==
    [doc EXCEPT !.chat_history = @ \o <<[role |-> "user", content |-> user_message],
                                        [role |-> "assistant", content |-> agent_response]>>]

update_session(c, sid, user_message, agent_response) ==
    IF Found(c, sid)
    THEN update_one(c, sid,
            MongoSet([PushPair(c[sid][1], user_message, agent_response)
                        EXCEPT !.message_count = @ + 1],
                     [last_active |-> "update_session"]))
    ELSE c

\* the $slice projection: a negative count keeps the last n elements
SliceLast(seq, n) ==
    IF Len(seq) <= n THEN seq ELSE SubSeq(seq, Len(seq) - n + 1, Len(seq))

get_chat_history_half(c, sid) ==
    IF Found(c, sid) THEN SliceLast(c[sid][1].chat_history, MAX_CONTEXT_MESSAGES) ELSE <<>>
get_chat_history(c, sid) ==
    IF Found(c, sid) THEN SliceLast(c[sid][1].chat_history, MAX_CONTEXT_MESSAGES * 2) ELSE <<>>

set_stage(c, sid, stage) ==
    IF Found(c, sid)
    THEN update_one(c, sid, MongoSet(c[sid][1], [stage |-> stage, last_active |-> "set_stage"]))
    ELSE c

\* kwargs are written under conversation_context.<key>
update_conversation_context(c, sid, kwargs) ==
    IF Found(c, sid)
    THEN update_one(c, sid,
            MongoSet([c[sid][1] EXCEPT !.conversation_context = kwargs @@ @],
                     [last_active |-> "update_conversation_context"]))
    ELSE c

set_collected_info_replacing_all(c, sid, info_type, value) ==
    IF Found(c, sid)
    THEN update_one(c, sid,
            MongoSet(c[sid][1],
                     [collected_info |-> (info_type :> value),
                      last_active |-> "set_collected_info"]))
    ELSE c
set_collected_info(c, sid, info_type, value) ==
    IF Found(c, sid)
    THEN update_one(c, sid,
            MongoSet([c[sid][1] EXCEPT !.collected_info = (info_type :> value) @@ @],
                     [last_active |-> "set_collected_info"]))
    ELSE c

\* find_one_and_update without upsert; found is FALSE when nothing matched
\* (the code then fails on the None it got back)
increment_error_count(c, sid) ==
    IF Found(c, sid)
    THEN LET c2 == update_one(c, sid,
                     MongoSet([c[sid][1] EXCEPT !.conversation_context.error_count = @ + 1],
                              [last_active |-> "increment_error_count"]))
         IN  [c |-> c2, found |-> TRUE,
              error_count |-> c2[sid][1].conversation_context.error_count]
    ELSE [c |-> c, found |-> FALSE, error_count |-> 0]

----------------------------------------------------------------------------
(* The record of the most recent call *)

NoCall ==
    [op |-> "none", sid |-> "s1", msg |-> "", reply |-> "",
     session |-> <<>>, history |-> <<>>, before |-> <<>>, updates |-> 0]

IdleProc == [pc |-> "idle", sid |-> "s1", ret |-> <<>>]

----------------------------------------------------------------------------
(* Specification of the history operations: get_session, update_session    *)
(* and get_chat_history called one after the other on one session.         *)

HistoryMessages == {"Japan", "10"}
HistoryReplies == {"How many days will you be traveling for?"}

InitHistory ==
    /\ db = [s \in Sessions |-> <<>>]
    /\ last = NoCall
    /\ proc = [p \in Callers |-> IdleProc]

HGetSession(sid) ==
    LET r == get_session(db, sid)
    IN  /\ db' = r.c
        /\ last' = [NoCall EXCEPT !.op = "get_session", !.sid = sid,
                                  !.session = <<r.session>>, !.before = db[sid],
                                  !.updates = last.updates]
        /\ UNCHANGED proc

HUpdateSession(sid) ==
    /\ last.updates < MaxUpdates
    /\ \E m \in HistoryMessages, r \in HistoryReplies :
         /\ db' = update_session(db, sid, m, r)
         /\ last' = [NoCall EXCEPT !.op = "update_session", !.sid = sid, !.msg = m,
                                   !.reply = r, !.before = db[sid],
                                   !.updates = IF Found(db, sid) THEN last.updates + 1
                                               ELSE last.updates]
    /\ UNCHANGED proc

HGetChatHistory(sid) ==
    /\ last' = [NoCall EXCEPT !.op = "get_chat_history", !.sid = sid,
                              !.history = get_chat_history(db, sid),
                              !.before = db[sid], !.updates = last.updates]
    /\ UNCHANGED <<db, proc>>

NextHistory ==
    \E sid \in Sessions :
        \/ HGetSession(sid)
        \/ HUpdateSession(sid)
        \/ HGetChatHistory(sid)

SpecHistory == InitHistory /\ [][NextHistory]_vars

----------------------------------------------------------------------------
(* Specification of the upsert: callers run get_session concurrently.  The *)
(* server executes find_one_and_update(upsert=True) as a query followed,   *)
(* on a miss, by an insert; with the unique index an insert that finds the *)
(* id taken fails with a duplicate key and the server retries the          *)
(* operation, which then matches.  The other store operations run          *)
(* atomically in between.                                                  *)

UpsertStages == {"travel_inquiry"}
UpsertMessages == {"Japan"}
UpsertReplies == {"How many days will you be traveling for?"}

InitUpsert ==
    /\ db = [s \in Sessions |-> <<>>]
    /\ last = NoCall
    /\ proc = [p \in Callers |-> IdleProc]

\* the query phase: a match is updated and returned in one atomic step
UGetSessionQuery(p, sid) ==
    /\ proc[p].pc \in {"idle", "upsert_retry"}
    /\ IF Found(db, sid)
       THEN /\ db' = update_one(db, sid, GetSessionOnMatch(db[sid][1]))
            /\ proc' = [proc EXCEPT ![p] = [pc |-> "idle", sid |-> sid,
                                            ret |-> <<db'[sid][1]>>]]
       ELSE /\ db' = db
            /\ proc' = [proc EXCEPT ![p] = [pc |-> "upsert_insert", sid |-> sid,
                                            ret |-> <<>>]]
    /\ last' = [last EXCEPT !.op = "get_session", !.sid = sid]

\* the insert phase
UGetSessionInsert(p) ==
    /\ proc[p].pc = "upsert_insert"
    /\ LET sid == proc[p].sid
       IN  IF UniqueIndex /\ Found(db, sid)
           THEN /\ db' = db
                /\ proc' = [proc EXCEPT ![p].pc = "upsert_retry"]
                /\ last' = [last EXCEPT !.op = "duplicate_key", !.sid = sid]
           ELSE /\ db' = [db EXCEPT ![sid] = @ \o <<GetSessionOnInsert>>]
                /\ proc' = [proc EXCEPT ![p] = [pc |-> "idle", sid |-> sid,
                                                ret |-> <<GetSessionOnInsert>>]]
                /\ last' = [last EXCEPT !.op = "get_session", !.sid = sid]

UUpdateSession(sid) ==
    /\ Found(db, sid) => db[sid][1].message_count < MaxStoreUpdates
    /\ \E m \in UpsertMessages, r \in UpsertReplies :
         db' = update_session(db, sid, m, r)
    /\ last' = [last EXCEPT !.op = "update_session", !.sid = sid]
    /\ UNCHANGED proc

USetStage(sid) ==
    /\ \E st \in UpsertStages : db' = set_stage(db, sid, st)
    /\ last' = [last EXCEPT !.op = "set_stage", !.sid = sid]
    /\ UNCHANGED proc

USetCollectedInfo(sid) ==
    /\ db' = set_collected_info(db, sid, "travel_info", [destination |-> "Japan"])
    /\ last' = [last EXCEPT !.op = "set_collected_info", !.sid = sid]
    /\ UNCHANGED proc

UUpdateContext(sid) ==
    /\ db' = update_conversation_context(db, sid, [primary_product |-> "TRAVEL"])
    /\ last' = [last EXCEPT !.op = "update_conversation_context", !.sid = sid]
    /\ UNCHANGED proc

UIncrementErrorCount(sid) ==
    /\ Found(db, sid) => db[sid][1].conversation_context.error_count < MaxStoreUpdates
    /\ db' = increment_error_count(db, sid).c
    /\ last' = [last EXCEPT !.op = "increment_error_count", !.sid = sid]
    /\ UNCHANGED proc

NextUpsert ==
    \E sid \in Sessions :
        \/ \E p \in Callers : UGetSessionQuery(p, sid)
        \/ \E p \in Callers : UGetSessionInsert(p)
        \/ UUpdateSession(sid)
        \/ USetStage(sid)
        \/ USetCollectedInfo(sid)
        \/ UUpdateContext(sid)
        \/ UIncrementErrorCount(sid)

SpecUpsert == InitUpsert /\ [][NextUpsert]_vars

----------------------------------------------------------------------------
(* agents/primary_intent_agent.py: input validation *)

\* The messages of the model, with the properties validate_user_input and
\* the payment agent's regular expressions look at.
LongWords == "<1001 letters and spaces>"
LongSymbols == "<1001 punctuation marks>"

Messages == {"", "   ", "x", "y", "7", "?", "!!!", "aaaaaaaaaaa", "Japan", "10",
             LongWords, LongSymbols}

\* A text is a sequence of runs, each one character repeated n times, no two
\* neighbouring runs of the same character.
Run(ch, n) == [ch |-> ch, n |-> n]

\* the text of each message of the model
Text(m) ==
    CASE m = "" -> <<>>
      [] m = "   " -> <<Run(" ", 3)>>
      [] m \in {"x", "y", "7", "?"} -> <<Run(m, 1)>>
      [] m = "!!!" -> <<Run("!", 3)>>
      [] m = "aaaaaaaaaaa" -> <<Run("a", 11)>>
      [] m = "Japan" -> <<Run("J", 1), Run("a", 1), Run("p", 1), Run("a", 1), Run("n", 1)>>
      [] m = "10" -> <<Run("1", 1), Run("0", 1)>>
      [] m = LongWords -> <<Run("a", 500), Run(" ", 1), Run("b", 500)>>
      [] m = LongSymbols -> <<Run("!", 500), Run("?", 501)>>

\* the characters str.strip() removes and \s matches, the decimal digits, and
\* the characters \w matches
Whitespace == {" ", "\t", "\n"}
Digits == {"0", "1", "2", "3", "4", "5", "6", "7", "8", "9"}
WordCharacters ==
    Digits \cup {"_", "a", "b", "n", "p", "x", "y", "J", "N", "Y"}

\* len(user_message)
RECURSIVE MsgLen(_)
MsgLen(t) == IF t = <<>> THEN 0 ELSE t[1].n + MsgLen(Tail(t))

\* user_message.strip()
RECURSIVE StripLeft(_)
StripLeft(t) ==
    IF t # <<>> /\ t[1].ch \in Whitespace THEN StripLeft(Tail(t)) ELSE t
RECURSIVE StripRight(_)
StripRight(t) ==
    IF t # <<>> /\ t[Len(t)].ch \in Whitespace
    THEN StripRight(SubSeq(t, 1, Len(t) - 1))
    ELSE t
Strip(t) == StripRight(StripLeft(t))

\* len(user_message.strip())
StrippedLen(t) == MsgLen(Strip(t))

\* str.lower() of one character
LowerCharacter(ch) ==
    CASE ch = "J" -> "j"
      [] ch = "N" -> "n"
      [] ch = "Y" -> "y"
      [] OTHER -> ch

\* stripped.isdigit() or stripped.lower() in ['y','n','1','2','3','4','5']
IsDigitOrShortAnswer(stripped) ==
    \/ stripped # <<>> /\ \A i \in DOMAIN stripped : stripped[i].ch \in Digits
    \/ /\ Len(stripped) = 1
       /\ stripped[1].n = 1
       /\ LowerCharacter(stripped[1].ch) \in {"y", "n", "1", "2", "3", "4", "5"}

\* re.match(r'^(.)\1{10,}$', stripped): one character, eleven times or more
IsRepeatedCharacter(stripped) ==
    /\ Len(stripped) = 1
    /\ stripped[1].ch # "\n"
    /\ stripped[1].n >= 11

\* re.match(r'^[^\w\s]+$', stripped): only non-word, non-space characters
IsOnlySymbols(stripped) ==
    /\ stripped # <<>>
    /\ \A i \in DOMAIN stripped :
          stripped[i].ch \notin WordCharacters \cup Whitespace

\* the checks of validate_user_input in the order of the code: the
\* issue_type of the text t, or "valid"
issue_type(t) ==
    IF MsgLen(t) = 0 \/ StrippedLen(t) = 0 THEN "empty_input"
    ELSE IF StrippedLen(t) < 2 /\ ~IsDigitOrShortAnswer(Strip(t)) THEN "too_short"
    ELSE IF IsRepeatedCharacter(Strip(t)) THEN "repeated_characters"
    ELSE IF IsOnlySymbols(Strip(t)) THEN "only_symbols"
    ELSE IF MsgLen(t) > 1000 THEN "too_long"
    ELSE "valid"

\* the issue_type of message m, or "valid"
validate_user_input(m) == issue_type(Text(m))

\* validation_result["message"]
ValidationMessage(issue) ==
    CASE issue = "empty_input" -> "validation:empty_input"
      [] issue = "too_short" -> "validation:too_short"
      [] issue = "repeated_characters" -> "validation:repeated_characters"
      [] issue = "only_symbols" -> "validation:only_symbols"
      [] issue = "too_long" -> "validation:too_long"

Products == {"TRAVEL", "MAID", "POLICY_CLAIM_STATUS", "UNKNOWN"}

\* the Intent a failed classification falls back to
IntentOnError ==
    [product |-> "UNKNOWN", intent |-> "unwanted", confidence |-> 0,
     requires_clarification |-> TRUE]

\* get_primary_intent: llm is the structured result of the model call, or
\* "error" when the call or its parsing raised.  Confidences are in hundredths.
get_primary_intent(m, llm) ==
    IF validate_user_input(m) # "valid"
    THEN [product |-> "UNKNOWN", intent |-> "invalid_input", confidence |-> 100,
          requires_clarification |-> FALSE]
    ELSE IF llm.intent = "error" THEN IntentOnError
    ELSE llm

----------------------------------------------------------------------------
(* agents/fallback_system.py *)

high_error_count == 5
repeated_failures == 3

\* store operations of the fallback path that raise in this call
NoFaults == {}

\* should_escalate; a failing session lookup is caught and answers False
should_escalate_high_only(c, sid, error_type, faults) ==
    IF "should_escalate" \in faults
    THEN [c |-> c, escalate |-> FALSE]
    ELSE LET gs == get_session(c, sid)
             error_count == gs.session.conversation_context.error_count
         IN  [c |-> gs.c, escalate |-> error_count >= high_error_count]
should_escalate(c, sid, error_type, faults) ==
    IF "should_escalate" \in faults
    THEN [c |-> c, escalate |-> FALSE]
    ELSE LET gs == get_session(c, sid)
             error_count == gs.session.conversation_context.error_count
         IN  [c |-> gs.c,
              escalate |-> \/ error_count >= high_error_count
                           \/ (error_type = "agent_error"
                               /\ error_count >= repeated_failures)]

\* random.choice(self.fallback_responses.get(error_type, general_error))
FallbackPool(error_type) ==
    CASE error_type = "general_error" -> "fallback:general_error"
      [] error_type = "input_validation_error" -> "fallback:input_validation_error"
      [] error_type = "agent_error" -> "fallback:agent_error"
      [] error_type = "timeout_error" -> "fallback:timeout_error"
      [] error_type = "too_many_errors" -> "fallback:too_many_errors"
      [] error_type = "off_topic" -> "fallback:off_topic"
      [] error_type = "product_not_available" -> "fallback:product_not_available"
      [] OTHER -> "fallback:general_error"

\* get_fallback_response: c is the collection, out the reply
get_fallback_response(c, sid, error_type, faults) ==
    With(should_escalate(c, sid, error_type, faults), LAMBDA esc :
      IF esc.escalate
      THEN [c |-> esc.c, out |-> "fallback:escalation"]
      ELSE With(increment_error_count(esc.c, sid), LAMBDA inc :
             IF "increment_error_count" \in faults \/ ~inc.found
             THEN [c |-> esc.c, out |-> "fallback:here_to_help"]
             ELSE [c |-> inc.c, out |-> FallbackPool(error_type)]))

\* agent_fallbacks.get(agent_type, agent_error pool)
AgentFallback(agent_type) ==
    CASE agent_type = "travel_agent" -> "agent_failure:travel_agent"
      [] agent_type = "maid_agent" -> "agent_failure:maid_agent"
      [] agent_type = "payment_agent" -> "agent_failure:payment_agent"
      [] OTHER -> "fallback:agent_error"

\* handle_agent_failure: last_error and last_error_time are written to the
\* context (keys the model does not keep); the error count is not touched
handle_agent_failure(c, sid, agent_type) ==
    [c |-> update_conversation_context(c, sid, EmptyMap),
     out |-> AgentFallback(agent_type)]

\* detect_confusion_patterns: llm is "none" when the model sees no confusion
\* with confidence above 0.7 or the call fails, else the confusion type
ConfusionResponse(confusion_type) ==
    CASE confusion_type = "what" -> "confusion:what"
      [] confusion_type = "how" -> "confusion:how"
      [] confusion_type = "confused" -> "confusion:confused"
      [] confusion_type = "repeat" -> "confusion:repeat"
      [] confusion_type = "different" -> "confusion:different"
      [] OTHER -> "confusion:help"

detect_confusion(c, sid, llm) ==
    [c |-> get_session(c, sid).c,
     out |-> IF llm = "none" THEN "None" ELSE ConfusionResponse(llm)]

----------------------------------------------------------------------------
(* agents/travel_agent.py and agents/recommendation_agent.py *)

\* An optional value is a sequence of length zero (None) or one.
None == <<>>
Some(v) == <<v>>
IsSome(o) == Len(o) = 1

required_info == <<"destination", "travel_duration_days",
                   "pre_existing_medical_conditions", "budget_preference">>

\* str.lower() on the answers the model may extract
Lower(v) ==
    CASE v = "Yes" -> "yes"
      [] v = "No" -> "no"
      [] v = "Comprehensive" -> "comprehensive"
      [] v = "Budget-Friendly" -> "budget-friendly"
      [] OTHER -> v

\* the field validators of TravelInfo
validate_duration_exclusive(o) == IsSome(o) => (1 < o[1] /\ o[1] < 364)
validate_duration(o) == IsSome(o) => (1 <= o[1] /\ o[1] <= 364)
validate_medical_conditions(o) == IsSome(o) => Lower(o[1]) \in {"yes", "no"}
validate_budget(o) == IsSome(o) => Lower(o[1]) \in {"budget-friendly", "comprehensive"}

TravelInfoValid(x) ==
    /\ validate_duration(x.travel_duration_days)
    /\ validate_medical_conditions(x.pre_existing_medical_conditions)
    /\ validate_budget(x.budget_preference)

\* the non-null fields of result.model_dump(), is_ambiguous left out
NonNullFields(x) ==
    LET keys == {k \in {required_info[i] : i \in 1..4} : IsSome(x[k])}
    IN  [k \in keys |-> x[k][1]]

\* [key for key in required_info if key not in travel_info], in order
missing_info(travel_info) ==
    SelectSeq(required_info, LAMBDA k : k \notin DOMAIN travel_info)

\* recommend_plan, lines 33-45: the tier follows budget_preference alone
PlanForBudgetSwapped(budget_preference) ==
    IF Lower(budget_preference) = "budget-friendly" THEN "Gold"
    ELSE IF Lower(budget_preference) = "comprehensive" THEN "Silver"
    ELSE "Silver"
PlanForBudget(budget_preference) ==
    IF Lower(budget_preference) = "budget-friendly" THEN "Silver"
    ELSE IF Lower(budget_preference) = "comprehensive" THEN "Gold"
    ELSE "Silver"

\* travel_info.get("budget_preference", "")
BudgetOf(travel_info) ==
    IF "budget_preference" \in DOMAIN travel_info
    THEN travel_info["budget_preference"] ELSE ""

\* lines 75-88: the dict recommend_plan returns.  llm is the outcome of the
\* structured call: llm_ok whether it succeeded, llm_plan the plan field of
\* its reply, which line 80 overwrites
RecommendationDictKeepingReply(recommended_plan, llm) ==
    IF llm.llm_ok
    THEN [plan |-> llm.llm_plan, has_texts |-> TRUE]
    ELSE [plan |-> recommended_plan, has_texts |-> FALSE]
RecommendationDict(recommended_plan, llm) ==
    IF llm.llm_ok
    THEN [[plan |-> llm.llm_plan, has_texts |-> TRUE]
             EXCEPT !.plan = recommended_plan]
    ELSE [plan |-> recommended_plan, has_texts |-> FALSE]

get_recommendation_unavailable(c, sid, llm) ==
    With(get_session(c, sid), LAMBDA gs :
      [c |-> gs.c, plan |-> "not available", has_texts |-> FALSE])
get_recommendation(c, sid, llm) ==
    With(get_session(c, sid), LAMBDA gs :
      IF "travel_info" \notin DOMAIN gs.session.collected_info
      THEN [c |-> gs.c, plan |-> "not available", has_texts |-> FALSE]
      ELSE With(RecommendationDict(
                  PlanForBudget(BudgetOf(gs.session.collected_info["travel_info"])),
                  llm), LAMBDA d :
             [c |-> gs.c, plan |-> d.plan, has_texts |-> d.has_texts]))

\* the reply of run_travel_agent once all four fields are there
RecommendationOutput(plan, has_texts, message_ok) ==
    IF ~message_ok THEN "travel:recommendation_unavailable"
    ELSE IF has_texts
    THEN CASE plan = "Silver" -> "travel:recommend_Silver_with_reason"
           [] plan = "Gold" -> "travel:recommend_Gold_with_reason"
    ELSE CASE plan = "Silver" -> "travel:recommend_Silver"
           [] plan = "Gold" -> "travel:recommend_Gold"
           [] OTHER -> "travel:recommend_not_available"

NextQuestion(field) ==
    CASE field = "destination" -> "travel:ask_destination"
      [] field = "travel_duration_days" -> "travel:ask_duration"
      [] field = "pre_existing_medical_conditions" -> "travel:ask_medical"
      [] field = "budget_preference" -> "travel:ask_budget"

\* run_travel_agent.  x is the extraction (kind "error" when the model call
\* raised something other than a validation error), rec the outcome of the
\* two model calls of the recommendation.  Returns collection, output, stage.
\* session.get("collected_info", {}).get("travel_info", {})
TravelInfoOf(session) ==
    IF "travel_info" \in DOMAIN session.collected_info
    THEN session.collected_info["travel_info"] ELSE EmptyMap

\* the reply to an ambiguous answer, by the first field still missing
UnsureReply(missing) ==
    IF missing # <<>> /\ missing[1] = "pre_existing_medical_conditions"
    THEN "travel:unsure_medical"
    ELSE IF missing # <<>> /\ missing[1] = "budget_preference"
    THEN "travel:unsure_budget"
    ELSE "travel:unsure"

\* lines 86-211 of run_travel_agent: travel_info is the map read at line 59,
\* c the collection by the time the agent goes on
TravelAgentAfterRead(c, travel_info, sid, x, rec) ==
    IF x.kind = "error"
    THEN [c |-> c, output |-> "travel:rephrase", stage |-> "travel_inquiry"]
    ELSE IF ~TravelInfoValid(x)
    THEN [c |-> c, output |-> "travel:provide_again", stage |-> "travel_inquiry"]
    ELSE IF x.is_ambiguous
    THEN [c |-> c, stage |-> "travel_inquiry",
          output |-> UnsureReply(missing_info(travel_info))]
    ELSE
      With(NonNullFields(x) @@ travel_info, LAMBDA updated :
      With(set_collected_info(c, sid, "travel_info", updated), LAMBDA c1 :
        IF missing_info(updated) = <<>>
        THEN With(get_recommendation(set_stage(c1, sid, "recommendation"),
                                     sid, rec), LAMBDA r :
               [c |-> IF r.plan # "not available"
                      THEN update_conversation_context(r.c, sid,
                              [recommended_plan |-> r.plan])
                      ELSE r.c,
                stage |-> "recommendation",
                output |-> RecommendationOutput(r.plan, r.has_texts,
                                                rec.message_ok)])
        ELSE [c |-> c1, stage |-> "travel_inquiry",
              output |-> NextQuestion(missing_info(updated)[1])]))

run_travel_agent(c, sid, x, rec) ==
    With(get_session(c, sid), LAMBDA gs :
      TravelAgentAfterRead(gs.c, TravelInfoOf(gs.session), sid, x, rec))

----------------------------------------------------------------------------
(* agents/payment_agent.py *)

\* validate_name and validate_email on the values of the model
validate_name(name) == name \in {"John Smith", "Japan"}
validate_email(email) == email \in {"john@x.com", "John@X.com"}
EmailLower(email) == IF email = "John@X.com" THEN "john@x.com" ELSE email

\* the regular-expression fallbacks on the user message: the e-mail pattern
\* finds nothing in the messages of the model; the name patterns
\* (re.IGNORECASE) find the first run of words of two letters or more
RegexEmail(m) == None
RegexName(m) == IF m = "Japan" THEN Some("Japan") ELSE None

\* process_payment builds the link and answers with stage completed
process_payment(payment_info) ==
    [output |-> "payment:completed", stage |-> "completed", payment_link |-> TRUE]

\* whether lower-cased reply text contains "payment gateway" or "redirected";
\* of the agent's replies only free text written by the model can
MentionsGateway(output) == output = "payment:model_text_mentioning_gateway"

\* run_payment_agent.  pay is the PaymentStage the model returned (stage
\* "error" when the call raised).  Returns collection, output, stage, link.
\* collected_info.get("payment_info", {})
PaymentInfoOf(session) ==
    IF "payment_info" \in DOMAIN session.collected_info
    THEN session.collected_info["payment_info"] ELSE EmptyMap

\* result.extracted_name and result.extracted_email after the fallbacks
ExtractedName(pay, m) ==
    IF IsSome(pay.extracted_name) THEN pay.extracted_name
    ELSE IF IsSome(RegexName(m)) /\ validate_name(RegexName(m)[1])
    THEN RegexName(m) ELSE None
ExtractedEmail(pay, m) ==
    IF IsSome(pay.extracted_email) THEN pay.extracted_email
    ELSE IF IsSome(RegexEmail(m)) /\ validate_email(RegexEmail(m)[1])
    THEN RegexEmail(m) ELSE None

\* payment_info after the valid name and e-mail were stored in it
PaymentInfoWith(payment_info, name, email) ==
    (IF IsSome(email) THEN ("email" :> EmailLower(email[1])) ELSE EmptyMap)
    @@ (IF IsSome(name) THEN ("name" :> name[1]) ELSE EmptyMap)
    @@ payment_info

\* a reply of the payment agent that leaves the collection as it is
PaymentReply(c, out, st) ==
    [c |-> c, output |-> out, stage |-> st, payment_link |-> FALSE]

run_payment_agent(c, sid, m, pay) ==
    With(get_session(c, sid), LAMBDA gs :
    With(PaymentInfoOf(gs.session), LAMBDA payment_info :
    With(ExtractedName(pay, m), LAMBDA name :
    With(ExtractedEmail(pay, m), LAMBDA email :
      IF gs.session.conversation_context.primary_product = "None"
      THEN PaymentReply(gs.c, "payment:which_product", "error")
      ELSE IF pay.stage = "error"
      THEN PaymentReply(gs.c, "payment:trouble", "error")
      ELSE IF pay.stage = "plan_confirmation"
      THEN IF pay.user_intent = "confirm_plan"
           THEN PaymentReply(gs.c, "payment:confirmed_ask_name", "collecting_details")
           ELSE PaymentReply(gs.c, "payment:confirm_purchase", "plan_confirmation")
      ELSE IF pay.stage = "collecting_details"
      THEN IF IsSome(name) /\ ~validate_name(name[1])
           THEN PaymentReply(gs.c, "payment:invalid_name", "collecting_details")
           ELSE IF IsSome(email) /\ ~validate_email(email[1])
           THEN PaymentReply(gs.c, "payment:invalid_email", "collecting_details")
           ELSE
             With(PaymentInfoWith(payment_info, name, email), LAMBDA updated :
             With(set_collected_info(gs.c, sid, "payment_info", updated), LAMBDA c1 :
               IF "name" \notin DOMAIN updated
               THEN PaymentReply(c1, "payment:ask_name", "collecting_details")
               ELSE IF "email" \notin DOMAIN updated
               THEN PaymentReply(c1, "payment:ask_email", "collecting_details")
               ELSE [c |-> c1] @@ process_payment(updated)))
      ELSE IF pay.stage = "processing_payment"
      THEN IF "name" \in DOMAIN payment_info /\ "email" \in DOMAIN payment_info
           THEN [c |-> gs.c] @@ process_payment(payment_info)
           ELSE PaymentReply(gs.c, "payment:need_details", "collecting_details")
      ELSE IF pay.user_intent = "cancel"
      THEN PaymentReply(gs.c, "payment:cancelled", "cancelled")
      ELSE PaymentReply(gs.c,
                        IF pay.mentions_gateway
                        THEN "payment:model_text_mentioning_gateway"
                        ELSE "payment:model_text",
                        pay.stage)))))

----------------------------------------------------------------------------
(* agents/conversation_flow_manager.py *)

\* current_agent and current_agent != "UNKNOWN"
HasProductContext(primary_product) == primary_product \notin {"None", "UNKNOWN"}

\* analyze_conversation_flow.  llm is the reply of the model: kind "json" with
\* a decision and a confidence, "unparsable" when the reply is not the JSON
\* decision, "error" when the call raised.
analyze_conversation_flow(c, sid, chat_history, llm) ==
    With(get_session(c, sid), LAMBDA gs :
      IF chat_history = <<>>
      THEN [c |-> gs.c, decision |-> "switch", confidence |-> 100]
      ELSE IF llm.kind = "error"
      THEN IF HasProductContext(gs.session.conversation_context.primary_product)
           THEN [c |-> gs.c, decision |-> "continue", confidence |-> 60]
           ELSE [c |-> gs.c, decision |-> "switch", confidence |-> 50]
      ELSE IF llm.kind = "unparsable"
      THEN [c |-> gs.c, decision |-> "continue", confidence |-> 50]
      ELSE [c |-> gs.c, decision |-> llm.decision, confidence |-> llm.confidence])

\* the threshold rule of should_continue_conversation
ContinueByThresholdStrict(decision, confidence, primary_product) ==
    IF confidence >= 80 THEN decision = "continue"
    ELSE IF confidence >= 50 THEN decision = "continue"
    ELSE HasProductContext(primary_product)
ContinueByThreshold(decision, confidence, primary_product) ==
    IF confidence >= 80 THEN decision = "continue"
    ELSE IF confidence >= 50 THEN decision \in {"continue", "clarify"}
    ELSE HasProductContext(primary_product)

should_continue_conversation(c, sid, chat_history, llm) ==
    With(analyze_conversation_flow(c, sid, chat_history, llm), LAMBDA a :
    With(get_session(a.c, sid), LAMBDA gs :
      [c |-> gs.c,
       should_continue |->
          ContinueByThreshold(a.decision, a.confidence,
                              gs.session.conversation_context.primary_product)]))

\* should_continue_with_current_agent: three analyses of the same message;
\* the first decides should_continue, the third supplies the reported
\* confidence and decision
should_continue_with_current_agent(c, sid, chat_history, llm1, llm2, llm3) ==
    With(should_continue_conversation(c, sid, chat_history, llm1), LAMBDA s1 :
    With(analyze_conversation_flow(s1.c, sid, chat_history, llm2), LAMBDA a2 :
    With(analyze_conversation_flow(a2.c, sid, chat_history, llm3), LAMBDA a3 :
      [c |-> a3.c, should_continue |-> s1.should_continue,
       confidence |-> a3.confidence, decision |-> a3.decision])))

----------------------------------------------------------------------------
(* agents/intelligent_orchestrator.py *)

\* the reply of an agent, returned as it is: response.get("output")
AgentReply(r) == [c |-> r.c, out |-> r.output]

\* the routing table of process_normal_intent
agent_map_with_maid == {"TRAVEL", "MAID"}
agent_map == {"TRAVEL"}

\* f"{product.value.lower()}_inquiry"
InquiryStage(product) ==
    CASE product = "TRAVEL" -> "travel_inquiry"
      [] product = "MAID" -> "maid_inquiry"
      [] product = "POLICY_CLAIM_STATUS" -> "policy_claim_status_inquiry"
      [] OTHER -> "unknown_inquiry"

\* whether the call at line 620 matches run_payment_agent's three parameters
\* (it passes two), and the call at line 415 generate_plan_comparison_table's
\* three (it passes two)
PaymentCallMatchesSignature == FALSE
ComparisonCallMatchesSignature == FALSE

\* get_rag_response never raises: a failed retrieval is answered with a text
RagResponse(query, rag) ==
    IF rag = "ok" THEN "rag:answer:" \o query ELSE "rag:trouble"
RagWithPrompt(rag) ==
    IF rag = "ok" THEN "rag:answer+purchase_prompt" ELSE "rag:trouble+purchase_prompt"

\* clear collected_info: update_one with $set {"collected_info": {}}
clear_collected_info(c, sid) ==
    IF Found(c, sid)
    THEN update_one(c, sid, MongoSet(c[sid][1], [collected_info |-> EmptyMap]))
    ELSE c

process_normal_intent(c, sid, intent_result, m, in) ==
    IF intent_result.intent = "payment_inquiry"
    THEN LET c1 == set_stage(c, sid, "payment")
         IN  IF PaymentCallMatchesSignature
             THEN AgentReply(run_payment_agent(c1, sid, m, in.pay))
             ELSE handle_agent_failure(c1, sid, "payment_agent")
    ELSE IF intent_result.product \in agent_map
    THEN LET c1 == set_stage(c, sid, InquiryStage(intent_result.product))
         IN  IF intent_result.product = "TRAVEL"
             THEN AgentReply(run_travel_agent(c1, sid, in.x, in.rec))
             ELSE [c |-> c1, out |-> "agent:reply"]
    ELSE get_fallback_response(c, sid, "product_not_available", NoFaults)

provide_intelligent_guidance(chat_history) ==
    IF Len(chat_history) <= 2 THEN "guidance:early" ELSE "guidance:later"

handle_unknown_product_intelligently(c, sid, m, chat_history, in) ==
    LET intent_result == get_primary_intent(m, in.cls2)
    IN  IF intent_result.product = "TRAVEL"
        THEN LET c1 == update_conversation_context(c, sid,
                          [primary_product |-> "TRAVEL", last_intent |-> "product_inquiry"])
                 c2 == set_stage(c1, sid, "travel_inquiry")
             IN  AgentReply(run_travel_agent(c2, sid, in.x, in.rec))
        ELSE IF intent_result.intent = "payment_inquiry"
        THEN LET gs == get_session(c, sid)
             IN  IF gs.session.collected_info # EmptyMap
                 THEN AgentReply(run_payment_agent(set_stage(gs.c, sid, "payment"),
                                                   sid, m, in.pay))
                 ELSE [c |-> gs.c, out |-> "unknown:payment_needs_recommendation"]
        ELSE IF intent_result.intent = "product_inquiry"
        THEN [c |-> c, out |-> "unknown:which_type"]
        ELSE IF intent_result.intent = "informational"
        THEN LET c1 == set_stage(c, sid, "awaiting_product_for_rag")
                 c2 == update_conversation_context(c1, sid, [pending_rag_question |-> m])
             IN  [c |-> c2, out |-> "rag:which_insurance"]
        ELSE [c |-> c, out |-> provide_intelligent_guidance(chat_history)]

\* handle_low_confidence_intent; "None" means: go on with normal processing
handle_low_confidence_intent(intent_result) ==
    IF intent_result.confidence < 40 THEN "whatsapp:clarification_needed"
    ELSE IF intent_result.confidence < 60
    THEN IF intent_result.product # "UNKNOWN" THEN "lowconf:i_think_you_ask_about_product"
         ELSE "whatsapp:clarification_needed"
    ELSE "None"

\* stage awaiting_product_for_rag (lines 312-336); session is the document
\* read at line 268
StageAwaitingProduct_answering_message(c, sid, m, session, in) ==
    LET product_intent == get_primary_intent(m, in.cls)
        pending_question == session.conversation_context.pending_rag_question
    IN  IF product_intent.product # "UNKNOWN"
        THEN IF pending_question # "None"
             THEN LET c1 == set_stage(c, sid, "initial")
                      c2 == update_conversation_context(c1, sid,
                               [pending_rag_question |-> "None"])
                  IN  [c |-> c2, out |-> RagResponse(m, in.rag)]
             ELSE process_normal_intent(set_stage(c, sid, "initial"), sid,
                                        product_intent, m, in)
        ELSE [c |-> c, out |-> "rag:which_insurance_again"]
StageAwaitingProduct(c, sid, m, session, in) ==
    LET product_intent == get_primary_intent(m, in.cls)
        pending_question == session.conversation_context.pending_rag_question
    IN  IF product_intent.product # "UNKNOWN"
        THEN IF pending_question # "None"
             THEN LET c1 == set_stage(c, sid, "initial")
                      c2 == update_conversation_context(c1, sid,
                               [pending_rag_question |-> "None"])
                  IN  [c |-> c2, out |-> RagResponse(pending_question, in.rag)]
             ELSE process_normal_intent(set_stage(c, sid, "initial"), sid,
                                        product_intent, m, in)
        ELSE [c |-> c, out |-> "rag:which_insurance_again"]

\* stage recommendation (lines 339-453).  in.rintent is the stage's own
\* classification (intent "error" when the call raised).
StageRecommendation_keeping_collected_info(c, sid, m, in) ==
    LET gs == get_session(c, sid)
        current_product == gs.session.conversation_context.primary_product
        intent_result == in.rintent
        primary == get_primary_intent(m, in.cls)
    IN  IF intent_result.intent = "error"
        THEN [c |-> gs.c, out |-> "recommendation:technical_issue"]
        ELSE IF primary.product # "UNKNOWN" /\ primary.product # current_product
        THEN LET c1 == gs.c
                 c2 == update_conversation_context(c1, sid,
                          [primary_product |-> primary.product,
                           last_intent |-> "product_inquiry"])
                 c3 == set_stage(c2, sid, "initial")
             IN  process_normal_intent(c3, sid, primary, m, in)
        ELSE IF intent_result.intent = "purchase" /\ intent_result.confidence > 60
        THEN AgentReply(run_payment_agent(set_stage(gs.c, sid, "payment"),
                                          sid, m, in.pay))
        ELSE IF intent_result.intent = "plan_comparison" /\ intent_result.confidence > 60
        THEN LET tiers == get_session(gs.c, sid)
             IN  IF ComparisonCallMatchesSignature
                 THEN [c |-> tiers.c, out |-> "comparison:table+purchase_prompt"]
                 ELSE [c |-> tiers.c, out |-> "recommendation:technical_issue"]
        ELSE IF intent_result.intent = "other" /\ intent_result.confidence > 60
        THEN IF primary.intent = "policy_claim_status"
             THEN [c |-> gs.c, out |-> "claim_status:under_development"]
             ELSE IF primary.intent = "connect_to_live_agent"
             THEN LET c1 == update_conversation_context(gs.c, sid,
                               [last_intent |-> "connect_to_live_agent"])
                  IN  [c |-> set_stage(c1, sid, "live_agent"),
                       out |-> "live_agent:transfer"]
             ELSE [c |-> gs.c, out |-> RagWithPrompt(in.rag)]
        ELSE [c |-> gs.c, out |-> RagWithPrompt(in.rag)]
StageRecommendation(c, sid, m, in) ==
    LET gs == get_session(c, sid)
        current_product == gs.session.conversation_context.primary_product
        intent_result == in.rintent
        primary == get_primary_intent(m, in.cls)
    IN  IF intent_result.intent = "error"
        THEN [c |-> gs.c, out |-> "recommendation:technical_issue"]
        ELSE IF primary.product # "UNKNOWN" /\ primary.product # current_product
        THEN LET c1 == clear_collected_info(gs.c, sid)
                 c2 == update_conversation_context(c1, sid,
                          [primary_product |-> primary.product,
                           last_intent |-> "product_inquiry"])
                 c3 == set_stage(c2, sid, "initial")
             IN  process_normal_intent(c3, sid, primary, m, in)
        ELSE IF intent_result.intent = "purchase" /\ intent_result.confidence > 60
        THEN AgentReply(run_payment_agent(set_stage(gs.c, sid, "payment"),
                                          sid, m, in.pay))
        ELSE IF intent_result.intent = "plan_comparison" /\ intent_result.confidence > 60
        THEN LET tiers == get_session(gs.c, sid)
             IN  IF ComparisonCallMatchesSignature
                 THEN [c |-> tiers.c, out |-> "comparison:table+purchase_prompt"]
                 ELSE [c |-> tiers.c, out |-> "recommendation:technical_issue"]
        ELSE IF intent_result.intent = "other" /\ intent_result.confidence > 60
        THEN IF primary.intent = "policy_claim_status"
             THEN [c |-> gs.c, out |-> "claim_status:under_development"]
             ELSE IF primary.intent = "connect_to_live_agent"
             THEN LET c1 == update_conversation_context(gs.c, sid,
                               [last_intent |-> "connect_to_live_agent"])
                  IN  [c |-> set_stage(c1, sid, "live_agent"),
                       out |-> "live_agent:transfer"]
             ELSE [c |-> gs.c, out |-> RagWithPrompt(in.rag)]
        ELSE [c |-> gs.c, out |-> RagWithPrompt(in.rag)]

\* stage travel_inquiry (lines 455-463)
StageTravelInquiry(c, sid, m, in) ==
    AgentReply(run_travel_agent(c, sid, in.x, in.rec))

\* lines 563-580: conf is the result of the confusion check, then the agents
RoutingAgents(conf, sid, m, chat_history, in, should_continue, intent_result) ==
    IF conf.out # "None" THEN conf
    ELSE IF should_continue /\ intent_result.product = "UNKNOWN"
    THEN handle_unknown_product_intelligently(conf.c, sid, m, chat_history, in)
    ELSE process_normal_intent(conf.c, sid, intent_result, m, in)

\* lines 515-580: c1 is the collection after the context update of line 493
\* or 512, low the result of handle_low_confidence_intent
RoutingByIntent(c1, sid, m, chat_history, in, should_continue, intent_result, low) ==
    IF intent_result.intent = "invalid_input"
    THEN get_fallback_response(c1, sid, "input_validation_error", NoFaults)
    ELSE IF intent_result.requires_clarification
            \/ intent_result.confidence < 60
    THEN IF low # "None" THEN [c |-> c1, out |-> low]
         ELSE process_normal_intent(c1, sid, intent_result, m, in)
    ELSE IF intent_result.intent = "greeting"
    THEN [c |-> update_conversation_context(c1, sid, EmptyMap),
          out |-> "greeting"]
    ELSE IF intent_result.intent = "clarification_needed"
    THEN get_fallback_response(c1, sid, "input_validation_error", NoFaults)
    ELSE IF intent_result.intent = "other"
    THEN get_fallback_response(c1, sid, "off_topic", NoFaults)
    ELSE IF intent_result.intent = "informational"
    THEN IF intent_result.product # "UNKNOWN"
         THEN [c |-> c1, out |-> RagResponse(m, in.rag)]
         ELSE [c |-> update_conversation_context(
                        set_stage(c1, sid, "awaiting_product_for_rag"), sid,
                        [pending_rag_question |-> m]),
               out |-> "rag:which_insurance"]
    ELSE IF intent_result.intent = "policy_claim_status"
    THEN [c |-> c1, out |-> "claim_status:under_development"]
    ELSE IF intent_result.intent = "connect_to_live_agent"
    THEN [c |-> set_stage(update_conversation_context(c1, sid,
                             [last_intent |-> "connect_to_live_agent"]),
                          sid, "live_agent"),
          out |-> "live_agent:transfer"]
    ELSE RoutingAgents(IF should_continue /\ intent_result.product = "TRAVEL"
                       THEN [c |-> c1, out |-> "None"]
                       ELSE detect_confusion(c1, sid, in.confusion),
                       sid, m, chat_history, in, should_continue, intent_result)

\* lines 476-512: the classification, overridden by the product of the
\* context when the conversation continues; gs is the session read at
\* line 479
RoutingClassify(flow, gs, classified, sid) ==
    IF flow.should_continue
    THEN IF HasProductContext(gs.session.conversation_context.primary_product)
         THEN [c |-> gs.c,
               intent_result |->
                  [classified EXCEPT !.product =
                      gs.session.conversation_context.primary_product]]
         ELSE [c |-> update_conversation_context(gs.c, sid,
                        [primary_product |-> classified.product]),
               intent_result |-> classified]
    ELSE [c |-> update_conversation_context(flow.c, sid,
                    [primary_product |-> classified.product,
                     last_intent |-> classified.intent]),
          intent_result |-> classified]

\* the routing of a message at any other stage (lines 465-583).  The
\* context update of line 583 is outside every inner handler: raised says
\* whether an exception leaves the branch.
StageRouting(c, sid, m, chat_history, in, fault) ==
    With(should_continue_with_current_agent(c, sid, chat_history,
                                            in.flow, in.flow, in.flow), LAMBDA flow :
    With(RoutingClassify(flow, get_session(flow.c, sid),
                         get_primary_intent(m, in.cls), sid), LAMBDA k :
    With(RoutingByIntent(k.c, sid, m, chat_history, in, flow.should_continue,
                         k.intent_result,
                         handle_low_confidence_intent(k.intent_result)), LAMBDA r :
      IF fault = "context_update"
      THEN [c |-> r.c, out |-> r.out, raised |-> TRUE]
      ELSE [c |-> update_conversation_context(r.c, sid,
                      [last_intent |-> k.intent_result.intent,
                       primary_product |-> k.intent_result.product]),
            out |-> r.out, raised |-> FALSE])))

\* response_data.get("requires_context_switch") (line 280)
RequiresContextSwitch(response_data) ==
    /\ "requires_context_switch" \in DOMAIN response_data
    /\ response_data["requires_context_switch"]

\* lines 297-305: the reply of the payment agent, with the stage reset and
\* the closing note when its text mentions the gateway
PaymentAnswer(r, sid) ==
    IF MentionsGateway(r.output)
    THEN [c |-> set_stage(r.c, sid, "initial"),
          out |-> r.output \o "+closing_note",
          raised |-> FALSE]
    ELSE [c |-> r.c, out |-> r.output, raised |-> FALSE]

\* stage payment (lines 274-310).  On a context switch the message is
\* routed again by orchestrate_chat, which then finds stage initial.
StagePayment(c, sid, m, chat_history, in, fault) ==
    With(run_payment_agent(c, sid, m, in.pay), LAMBDA response_data :
      IF RequiresContextSwitch(response_data)
      THEN StageRouting(set_stage(clear_collected_info(response_data.c, sid),
                                  sid, "initial"),
                        sid, m, chat_history, in, fault)
      ELSE PaymentAnswer(response_data, sid))

\* no failing store operation in a turn
NoFault == [at |-> "none", handler |-> {}]

\* the outer handler of orchestrate_chat (lines 591-601)
CatchAll(c, sid, m, handler_faults) ==
    With(get_fallback_response(c, sid, "general_error", handler_faults), LAMBDA fb :
      [c |-> IF "update_session" \in handler_faults THEN fb.c
             ELSE update_session(fb.c, sid, m, fb.out),
       out |-> fb.out, raised |-> FALSE])

\* a stage handler that returned
NotRaised(r) == [c |-> r.c, out |-> r.out, raised |-> FALSE]

\* the stage handlers of lines 274-583 on the stage read at line 267
Dispatch(c, sid, m, chat_history, stage, session, in, fault) ==
    CASE stage = "payment" -> StagePayment(c, sid, m, chat_history, in, fault)
      [] stage = "awaiting_product_for_rag" ->
            NotRaised(StageAwaitingProduct(c, sid, m, session, in))
      [] stage = "recommendation" -> NotRaised(StageRecommendation(c, sid, m, in))
      [] stage = "travel_inquiry" ->
            IF fault = "travel_agent"
            THEN [c |-> c, out |-> "", raised |-> TRUE]
            ELSE NotRaised(StageTravelInquiry(c, sid, m, in))
      [] OTHER -> StageRouting(c, sid, m, chat_history, in, fault)

\* orchestrate_chat.  in holds the results of the model calls of the turn,
\* f the store operation that raises (at) and the store operations of the
\* outer handler that raise as well (handler).  Returns the collection, the
\* reply and whether the call raised.
orchestrate_chat(c, sid, m, in, f) ==
    IF validate_user_input(m) # "valid"
    THEN \* lines 259-264
         IF f.at = "validation_update"
         THEN CatchAll(c, sid, m, f.handler)
         ELSE [c |-> update_session(c, sid, m,
                                    ValidationMessage(validate_user_input(m))),
               out |-> ValidationMessage(validate_user_input(m)),
               raised |-> FALSE]
    ELSE IF f.at \in {"get_chat_history", "get_stage"}
    THEN CatchAll(c, sid, m, f.handler)
    ELSE \* lines 266-268: gs1 is the session get_stage reads
         With(get_chat_history(c, sid), LAMBDA chat_history :
         With(get_session(c, sid), LAMBDA gs1 :
           IF f.at = "get_session"
           THEN CatchAll(gs1.c, sid, m, f.handler)
           ELSE With(get_session(gs1.c, sid), LAMBDA gs2 :
                With(Dispatch(gs2.c, sid, m, chat_history, gs1.session.stage,
                              gs2.session, in, f.at), LAMBDA r :
                  \* lines 585-589, or the outer handler when the turn raised
                  IF r.raised \/ f.at = "update_session"
                  THEN CatchAll(r.c, sid, m, f.handler)
                  ELSE [c |-> update_session(r.c, sid, m, r.out),
                        out |-> r.out, raised |-> FALSE]))))

----------------------------------------------------------------------------
(* Specification of the conversation: orchestrate_chat called turn after   *)
(* turn on one session, which starts never seen.  The inputs of a turn are  *)
(* the message and the results of the model calls the turn may consult.    *)

\* results of the classifier
Classification(product, intent, confidence, requires_clarification) ==
    [product |-> product, intent |-> intent, confidence |-> confidence,
     requires_clarification |-> requires_clarification]
ClassifierError == Classification("UNKNOWN", "error", 0, TRUE)
ConfidentIntents == {"product_inquiry", "payment_inquiry", "informational",
                     "greeting", "other", "clarification_needed",
                     "policy_claim_status", "connect_to_live_agent"}
Classifications ==
    {Classification(p, i, 80, FALSE) :
        p \in {"TRAVEL", "MAID", "UNKNOWN"}, i \in ConfidentIntents}
    \cup {Classification("TRAVEL", "product_inquiry", 30, FALSE),
          Classification("TRAVEL", "product_inquiry", 50, FALSE),
          Classification("UNKNOWN", "product_inquiry", 50, FALSE),
          Classification("TRAVEL", "product_inquiry", 80, TRUE),
          ClassifierError}

\* replies of the flow analysis
Flows == {[kind |-> "json", decision |-> "continue", confidence |-> 90],
          [kind |-> "json", decision |-> "switch", confidence |-> 90],
          [kind |-> "json", decision |-> "clarify", confidence |-> 60],
          [kind |-> "json", decision |-> "switch", confidence |-> 30],
          [kind |-> "unparsable", decision |-> "", confidence |-> 0],
          [kind |-> "error", decision |-> "", confidence |-> 0]}

\* results of the travel agent's extraction
Extraction(kind, destination, days, medical, budget, ambiguous) ==
    [kind |-> kind, destination |-> destination, travel_duration_days |-> days,
     pre_existing_medical_conditions |-> medical, budget_preference |-> budget,
     is_ambiguous |-> ambiguous]
NothingExtracted == Extraction("ok", None, None, None, None, FALSE)
Extractions ==
    {NothingExtracted,
     Extraction("ok", Some("Japan"), None, None, None, FALSE),
     Extraction("ok", None, Some(10), None, None, FALSE),
     Extraction("ok", None, Some(365), None, None, FALSE),
     Extraction("ok", None, None, Some("no"), None, FALSE),
     Extraction("ok", None, None, Some("maybe"), None, FALSE),
     Extraction("ok", None, None, None, Some("budget-friendly"), FALSE),
     Extraction("ok", None, None, None, Some("Comprehensive"), FALSE),
     Extraction("ok", Some("Japan"), Some(10), Some("no"), None, FALSE),
     Extraction("ok", Some("Japan"), Some(10), Some("no"), Some("budget-friendly"), FALSE),
     Extraction("ok", None, None, None, None, TRUE),
     Extraction("error", None, None, None, None, FALSE)}

\* outcomes of the two model calls of the recommendation
RecommendationCalls ==
    {[llm_ok |-> TRUE, llm_plan |-> "Gold", message_ok |-> TRUE],
     [llm_ok |-> FALSE, llm_plan |-> "", message_ok |-> TRUE],
     [llm_ok |-> TRUE, llm_plan |-> "Silver", message_ok |-> FALSE]}

\* results of the payment agent's analysis
PaymentStage(stage, user_intent, name, email, mentions_gateway) ==
    [stage |-> stage, user_intent |-> user_intent, extracted_name |-> name,
     extracted_email |-> email, mentions_gateway |-> mentions_gateway]
PaymentStages ==
    {PaymentStage("plan_confirmation", "confirm_plan", None, None, FALSE),
     PaymentStage("plan_confirmation", "question", None, None, FALSE),
     PaymentStage("processing_payment", "provide_details", None, None, FALSE),
     PaymentStage("completed", "cancel", None, None, FALSE),
     PaymentStage("completed", "question", None, None, FALSE),
     PaymentStage("completed", "question", None, None, TRUE),
     PaymentStage("error", "", None, None, FALSE)}
    \cup {PaymentStage("collecting_details", "provide_details", n, e, FALSE) :
            n \in {None, Some("John Smith"), Some("J0hn")},
            e \in {None, Some("John@X.com"), Some("not-an-email")}}

\* results of the recommendation stage's own classification
RecommendationIntents ==
    {[intent |-> "purchase", confidence |-> 90],
     [intent |-> "purchase", confidence |-> 60],
     [intent |-> "plan_comparison", confidence |-> 90],
     [intent |-> "policy_question", confidence |-> 90],
     [intent |-> "other", confidence |-> 90],
     [intent |-> "error", confidence |-> 0]}

\* the inputs of a turn in which no model call has anything to report
QuietTurn ==
    [flow |-> [kind |-> "json", decision |-> "switch", confidence |-> 90],
     cls |-> Classification("UNKNOWN", "other", 80, FALSE),
     cls2 |-> Classification("UNKNOWN", "other", 80, FALSE),
     confusion |-> "none", x |-> NothingExtracted,
     rec |-> [llm_ok |-> TRUE, llm_plan |-> "Gold", message_ok |-> TRUE],
     pay |-> PaymentStage("plan_confirmation", "question", None, None, FALSE),
     rintent |-> [intent |-> "policy_question", confidence |-> 90],
     rag |-> "ok"]

\* the messages of the turns: accepted and rejected by validate_user_input
ValidMessages == {m \in {"Japan"} : validate_user_input(m) = "valid"}
InvalidMessages == {m \in {"x"} : validate_user_input(m) # "valid"}

NoTurn ==
    [op |-> "none", sid |-> "s1", msg |-> "", reply |-> "", raised |-> FALSE,
     before |-> <<>>, turns |-> 0, scenario |-> 0, switch |-> FALSE,
     fault |-> NoFault, budget |-> 0, follow |-> FALSE]

\* whether a turn on document list before takes the product-switch branch of
\* the recommendation stage (line 381), which empties collected_info
ProductSwitch(before, m, in) ==
    /\ before # <<>>
    /\ validate_user_input(m) = "valid"
    /\ before[1].stage = "recommendation"
    /\ in.rintent.intent # "error"
    /\ get_primary_intent(m, in.cls).product \notin
          {"UNKNOWN", before[1].conversation_context.primary_product}

\* the replies with which run_travel_agent acknowledges an extraction it has
\* merged into travel_info
MergedReplies ==
    {"travel:ask_destination", "travel:ask_duration", "travel:ask_medical",
     "travel:ask_budget", "travel:recommendation_unavailable",
     "travel:recommend_Silver_with_reason", "travel:recommend_Gold_with_reason",
     "travel:recommend_Silver", "travel:recommend_Gold",
     "travel:recommend_not_available"}

\* Progress of the five-message purchase enquiry: 0 before the first turn,
\* 1 once the never-seen session's first message was classified TRAVEL /
\* product_inquiry, k + 1 once the k-th following message made the travel
\* agent extract the k-th required field (the budget being budget-friendly),
\* -1 as soon as a turn is none of these.
ScenarioNext(scenario, before, m, in, reply) ==
    LET x == in.x
        Yields(k) ==
            /\ reply \in MergedReplies
            /\ x.kind = "ok" /\ ~x.is_ambiguous /\ TravelInfoValid(x)
            /\ DOMAIN NonNullFields(x) = {required_info[k]}
            /\ k = 4 => Lower(x.budget_preference[1]) = "budget-friendly"
    IN  IF scenario = 0
        THEN IF /\ before = <<>>
                /\ validate_user_input(m) = "valid"
                /\ in.cls.product = "TRAVEL" /\ in.cls.intent = "product_inquiry"
             THEN 1 ELSE -1
        ELSE IF scenario \in 1..4 /\ Yields(scenario) THEN scenario + 1
        ELSE -1

StageOf(sid) == IF Found(db, sid) THEN db[sid][1].stage ELSE "initial"

\* budget is the number of turns a behaviour takes; with follow set, a
\* behaviour ends with the turn that leaves the enquiry
Init ==
    /\ db = [s \in Sessions |-> <<>>]
    /\ last = [NoTurn EXCEPT !.budget = MaxTurns]
    /\ proc = [p \in Callers |-> IdleProc]

\* one call of orchestrate_chat
Turn(sid, m, in, f) ==
    /\ last.turns < last.budget
    /\ last.follow => last.scenario >= 0
    /\ With(orchestrate_chat(db, sid, m, in, f), LAMBDA r :
          /\ db' = r.c
          /\ last' = [op |-> "orchestrate_chat", sid |-> sid, msg |-> m,
                      budget |-> last.budget, follow |-> last.follow,
                      reply |-> r.out, raised |-> r.raised, before |-> db[sid],
                      turns |-> last.turns + 1,
                      scenario |-> ScenarioNext(last.scenario, db[sid], m, in, r.out),
                      switch |-> f.at = "none" /\ ProductSwitch(db[sid], m, in),
                      fault |-> f])
    /\ UNCHANGED proc

\* a message that input validation rejects
TurnRejected(sid) ==
    \E m \in InvalidMessages :
        /\ validate_user_input(m) # "valid"
        /\ Turn(sid, m, QuietTurn, NoFault)

TurnPayment(sid) ==
    /\ StageOf(sid) = "payment"
    /\ \E m \in ValidMessages, pay \in PaymentStages :
         Turn(sid, m, [QuietTurn EXCEPT !.pay = pay], NoFault)

TurnAwaitingProduct(sid) ==
    /\ StageOf(sid) = "awaiting_product_for_rag"
    /\ \E m \in ValidMessages, rag \in {"ok", "error"},
          cls \in {Classification("TRAVEL", "informational", 80, FALSE),
                   Classification("MAID", "product_inquiry", 80, FALSE),
                   Classification("UNKNOWN", "other", 80, FALSE),
                   ClassifierError} :
         Turn(sid, m, [QuietTurn EXCEPT !.cls = cls, !.rag = rag], NoFault)

TurnTravelInquiry(sid) ==
    /\ StageOf(sid) = "travel_inquiry"
    /\ \E m \in ValidMessages, x \in Extractions, rec \in RecommendationCalls :
         Turn(sid, m, [QuietTurn EXCEPT !.x = x, !.rec = rec], NoFault)

\* the inputs a turn at stage recommendation may consult
RecommendationInputs ==
    {[QuietTurn EXCEPT !.rintent = ri, !.cls = cls] :
        ri \in RecommendationIntents, cls \in Classifications}
    \cup {[QuietTurn EXCEPT !.rintent = [intent |-> "purchase", confidence |-> 90],
                             !.pay = pay] : pay \in PaymentStages}
    \cup {[QuietTurn EXCEPT !.rag = "error"]}
    \cup {[QuietTurn EXCEPT !.cls = Classification("TRAVEL", "product_inquiry", 80, FALSE),
                             !.x = x] : x \in Extractions}

TurnRecommendation(sid) ==
    /\ StageOf(sid) = "recommendation"
    /\ \E m \in ValidMessages, in \in RecommendationInputs :
         Turn(sid, m, in, NoFault)

\* one flow reply for each answer should_continue_with_current_agent can give
FlowAnswers(sid) ==
    LET chat_history == get_chat_history(db, sid)
        Answer(flow) ==
            should_continue_with_current_agent(db, sid, chat_history,
                                               flow, flow, flow).should_continue
    IN  {CHOOSE g \in Flows : Answer(g) = b : b \in {Answer(flow) : flow \in Flows}}

\* the inputs a routed turn may consult besides the flow analysis
RoutingInputs ==
    {[QuietTurn EXCEPT !.cls = cls, !.rag = rag] :
        cls \in Classifications, rag \in {"ok", "error"}}
    \cup {[QuietTurn EXCEPT !.cls = cls, !.confusion = "what"] :
            cls \in {Classification(p, "product_inquiry", 80, FALSE) :
                        p \in {"TRAVEL", "UNKNOWN"}}}
    \cup {[QuietTurn EXCEPT !.cls = cls, !.x = x, !.rec = rec,
                             !.cls2 = Classification("TRAVEL", "product_inquiry", 80, FALSE)] :
            cls \in {Classification("TRAVEL", "product_inquiry", 80, FALSE),
                     Classification("TRAVEL", "product_inquiry", 80, TRUE),
                     Classification("UNKNOWN", "product_inquiry", 80, FALSE)},
            x \in Extractions, rec \in RecommendationCalls}
    \cup {[QuietTurn EXCEPT !.cls = Classification("UNKNOWN", "product_inquiry", 80, FALSE),
                             !.cls2 = cls2, !.pay = pay] :
            cls2 \in {Classification("UNKNOWN", i, 80, FALSE) :
                        i \in {"payment_inquiry", "product_inquiry",
                               "informational", "greeting"}}
                     \cup {Classification("MAID", "product_inquiry", 80, FALSE),
                           ClassifierError},
            pay \in {PaymentStage("plan_confirmation", "confirm_plan", None, None, FALSE),
                     PaymentStage("collecting_details", "provide_details",
                                  Some("John Smith"), None, FALSE)}}

TurnRouting(sid) ==
    /\ StageOf(sid) \in {"initial", "live_agent"}
    /\ \E m \in ValidMessages, flow \in FlowAnswers(sid), in \in RoutingInputs :
         Turn(sid, m, [in EXCEPT !.flow = flow], NoFault)

Next ==
    \E sid \in Sessions :
        \/ TurnRejected(sid)
        \/ TurnPayment(sid)
        \/ TurnAwaitingProduct(sid)
        \/ TurnTravelInquiry(sid)
        \/ TurnRecommendation(sid)
        \/ TurnRouting(sid)

Spec == Init /\ [][Next]_vars

----------------------------------------------------------------------------
(* Specification of the enquiry: the same turns, followed for as long as   *)
(* the conversation is the five-message travel enquiry (scenario >= 0).    *)
(* The stages payment and awaiting_product_for_rag are only entered by a   *)
(* turn that leaves the enquiry, so their turns do not occur here.         *)

InitEnquiry ==
    /\ db = [s \in Sessions |-> <<>>]
    /\ last = [NoTurn EXCEPT !.budget = MaxEnquiryTurns, !.follow = TRUE]
    /\ proc = [p \in Callers |-> IdleProc]

NextEnquiry ==
    \E sid \in Sessions :
        \/ TurnRejected(sid)
        \/ TurnTravelInquiry(sid)
        \/ TurnRecommendation(sid)
        \/ TurnRouting(sid)

SpecEnquiry == InitEnquiry /\ [][NextEnquiry]_vars

----------------------------------------------------------------------------
(* Specification of the failing store: turns in which one store operation  *)
(* of orchestrate_chat raises, and with it any of the store operations the  *)
(* outer handler then attempts.                                             *)

HandlerOperations == {"should_escalate", "increment_error_count", "update_session"}

Faults(sites) == {[at |-> site, handler |-> h] :
                    site \in sites, h \in SUBSET HandlerOperations}

\* update_session raises for a rejected message (line 263)
FaultRejected(sid) ==
    \E m \in InvalidMessages, f \in Faults({"validation_update"}) :
        /\ validate_user_input(m) # "valid"
        /\ Turn(sid, m, QuietTurn, f)

\* get_chat_history, get_stage or get_session raises (lines 266-268)
FaultBeforeDispatch(sid) ==
    \E m \in ValidMessages,
       f \in Faults({"get_chat_history", "get_stage", "get_session"}) :
        /\ validate_user_input(m) = "valid"
        /\ Turn(sid, m, QuietTurn, f)

\* the travel agent's session lookup raises (travel_agent.py line 57)
FaultTravelAgent(sid) ==
    /\ StageOf(sid) = "travel_inquiry"
    /\ \E m \in ValidMessages, f \in Faults({"travel_agent"}) :
         Turn(sid, m, QuietTurn, f)

\* the context update that ends the routing raises (line 583)
FaultContextUpdate(sid) ==
    /\ StageOf(sid) \in {"initial", "live_agent"}
    /\ \E m \in ValidMessages, f \in Faults({"context_update"}),
          flow \in FlowAnswers(sid),
          cls \in {Classification("TRAVEL", "product_inquiry", 80, FALSE),
                   Classification("UNKNOWN", "greeting", 80, FALSE)} :
         Turn(sid, m, [QuietTurn EXCEPT !.flow = flow, !.cls = cls], f)

\* the update_session that ends the turn raises (line 586)
FaultFinalUpdate(sid) ==
    \E m \in ValidMessages, f \in Faults({"update_session"}),
       cls \in {Classification("TRAVEL", "product_inquiry", 80, FALSE),
                ClassifierError} :
        /\ validate_user_input(m) = "valid"
        /\ Turn(sid, m, [QuietTurn EXCEPT !.cls = cls], f)

\* turns without a failing store operation, the model calls failing or not
FaultFreeTurn(sid) ==
    \E m \in ValidMessages, rag \in {"ok", "error"},
       x \in {Extraction("ok", Some("Japan"), None, None, None, FALSE),
              Extraction("error", None, None, None, None, FALSE)},
       cls \in {Classification("TRAVEL", "product_inquiry", 80, FALSE),
                Classification("TRAVEL", "informational", 80, FALSE),
                ClassifierError} :
        /\ validate_user_input(m) = "valid"
        /\ Turn(sid, m, [QuietTurn EXCEPT !.cls = cls, !.x = x, !.rag = rag], NoFault)

InitFaults ==
    /\ db = [s \in Sessions |-> <<>>]
    /\ last = [NoTurn EXCEPT !.budget = MaxFaultTurns]
    /\ proc = [p \in Callers |-> IdleProc]

NextFaults ==
    \E sid \in Sessions :
        \/ TurnRejected(sid)
        \/ FaultFreeTurn(sid)
        \/ FaultRejected(sid)
        \/ FaultBeforeDispatch(sid)
        \/ FaultTravelAgent(sid)
        \/ FaultContextUpdate(sid)
        \/ FaultFinalUpdate(sid)

SpecFaults == InitFaults /\ [][NextFaults]_vars

----------------------------------------------------------------------------
(* Specification of concurrent turns: two callers each run one turn of     *)
(* orchestrate_chat on the same session, which a first turn (TRAVEL,       *)
(* product_inquiry, nothing extracted) has left at stage travel_inquiry.   *)
(* Every store operation is atomic; a step of a turn is a run of           *)
(* consecutive store operations, so every behaviour is a schedule of the   *)
(* program.  The steps of a turn: the reads up to the travel agent's       *)
(* lookup of travel_info, the agent's write, the final update_session.  A  *)
(* turn whose lookup raises goes through the outer handler instead.        *)

ConcurrentMessage == [c1 |-> "Japan", c2 |-> "10"]

ConcurrentExtractions ==
    {Extraction("ok", Some("Japan"), None, None, None, FALSE),
     Extraction("ok", None, Some(10), None, None, FALSE),
     Extraction("ok", None, None, Some("no"), None, FALSE),
     Extraction("error", None, None, None, None, FALSE)}

\* the collection after the first turn of the enquiry
EnquiryOpened ==
    orchestrate_chat([s \in Sessions |-> <<>>], "s1", "Japan",
                     [QuietTurn EXCEPT
                        !.cls = Classification("TRAVEL", "product_inquiry", 80, FALSE)],
                     NoFault).c

\* a caller before its turn: travel_info is the agent's local map, stored the
\* fields the turn wrote into it, incremented whether it raised error_count
CallerIdle(p) ==
    [pc |-> "idle", sid |-> "s1", msg |-> ConcurrentMessage[p], reply |-> "",
     travel_info |-> EmptyMap, stored |-> {}, incremented |-> FALSE]

InitConcurrent ==
    /\ db = EnquiryOpened
    /\ last = NoTurn
    /\ proc = [p \in Callers |-> CallerIdle(p)]

\* orchestrate_chat lines 259-268 (stage travel_inquiry) and the agent's
\* lines 57-59: the session is read and travel_info taken from it
CRead(p) ==
    /\ proc[p].pc = "idle"
    /\ validate_user_input(proc[p].msg) = "valid"
    /\ StageOf(proc[p].sid) = "travel_inquiry"
    /\ db' = get_session(db, proc[p].sid).c
    /\ proc' = [proc EXCEPT ![p].pc = "read",
                            ![p].travel_info = TravelInfoOf(db'[proc[p].sid][1])]
    /\ last' = [last EXCEPT !.op = "get_session", !.sid = proc[p].sid]

\* the agent's session lookup raises (line 57)
CLookupFails(p) ==
    /\ proc[p].pc = "idle"
    /\ validate_user_input(proc[p].msg) = "valid"
    /\ StageOf(proc[p].sid) = "travel_inquiry"
    /\ proc' = [proc EXCEPT ![p].pc = "failed"]
    /\ last' = [last EXCEPT !.op = "get_session_raises", !.sid = proc[p].sid]
    /\ UNCHANGED db

\* the agent's lines 86-211 on the extraction x: the merged map is written
CStore(p) ==
    /\ proc[p].pc = "read"
    /\ \E x \in ConcurrentExtractions :
         /\ db' = TravelAgentAfterRead(db, proc[p].travel_info, proc[p].sid, x,
                                       QuietTurn.rec).c
         /\ proc' = [proc EXCEPT
                ![p].pc = "replied",
                ![p].reply = TravelAgentAfterRead(db, proc[p].travel_info,
                                                  proc[p].sid, x, QuietTurn.rec).output,
                ![p].stored = IF x.kind = "ok" /\ TravelInfoValid(x) /\ ~x.is_ambiguous
                              THEN DOMAIN NonNullFields(x) ELSE {}]
    /\ last' = [last EXCEPT !.op = "set_collected_info", !.sid = proc[p].sid]

\* the outer handler's get_fallback_response (lines 591-596)
CFallback(p) ==
    /\ proc[p].pc = "failed"
    /\ db' = get_fallback_response(db, proc[p].sid, "general_error", NoFaults).c
    /\ proc' = [proc EXCEPT
           ![p].pc = "replied",
           ![p].reply = get_fallback_response(db, proc[p].sid, "general_error",
                                              NoFaults).out,
           ![p].incremented =
               db'[proc[p].sid][1].conversation_context.error_count
                 # db[proc[p].sid][1].conversation_context.error_count]
    /\ last' = [last EXCEPT !.op = "increment_error_count", !.sid = proc[p].sid]

\* update_session with the reply (line 586, or line 599 in the handler)
CUpdate(p) ==
    /\ proc[p].pc = "replied"
    /\ db' = update_session(db, proc[p].sid, proc[p].msg, proc[p].reply)
    /\ proc' = [proc EXCEPT ![p].pc = "done"]
    /\ last' = [last EXCEPT !.op = "update_session", !.sid = proc[p].sid]

NextConcurrent ==
    \E p \in Callers :
        \/ CRead(p)
        \/ CLookupFails(p)
        \/ CStore(p)
        \/ CFallback(p)
        \/ CUpdate(p)

SpecConcurrent == InitConcurrent /\ [][NextConcurrent]_vars

----------------------------------------------------------------------------
(* Specification of the travel agent: run_travel_agent called again and    *)
(* again on a session at stage travel_inquiry, on extractions whose values  *)
(* lie inside, on and outside the limits of TravelInfo.                     *)

TravelExtractions ==
    {Extraction("ok", d, n, med, b, FALSE) :
        d \in {None, Some("Japan")},
        n \in {None, Some(0), Some(1), Some(364), Some(365), Some(400)},
        med \in {None, Some("No"), Some("maybe")},
        b \in {None, Some("Comprehensive"), Some("luxury")}}

NoAgentCall ==
    [op |-> "none", sid |-> "s1", x |-> NothingExtracted, reply |-> "",
     stage |-> "", before |-> <<>>, turns |-> 0]

InitTravelAgent ==
    /\ db = EnquiryOpened
    /\ last = NoAgentCall
    /\ proc = [p \in Callers |-> IdleProc]

\* one call of run_travel_agent
TravelAgentCall(sid) ==
    \E x \in TravelExtractions :
        /\ last.turns < MaxAgentCalls
        /\ With(run_travel_agent(db, sid, x, QuietTurn.rec), LAMBDA r :
              /\ db' = r.c
              /\ last' = [op |-> "run_travel_agent", sid |-> sid, x |-> x,
                          reply |-> r.output, stage |-> r.stage,
                          before |-> db[sid], turns |-> last.turns + 1])
        /\ UNCHANGED proc

NextTravelAgent == \E sid \in Sessions : TravelAgentCall(sid)

SpecTravelAgent == InitTravelAgent /\ [][NextTravelAgent]_vars

----------------------------------------------------------------------------
(* Specification of the recommendation: get_recommendation called on a     *)
(* session whose travel_info holds any of the fields, with a recognised,    *)
(* an unrecognised or no budget preference, whatever the model replies.     *)

\* the map holding key when the optional value o is there
OneField(key, o) == IF IsSome(o) THEN key :> o[1] ELSE EmptyMap

StoredBudgets ==
    {None, Some("budget-friendly"), Some("comprehensive"), Some("Comprehensive"),
     Some("luxury"), Some("")}

\* outcomes of the structured call of recommend_plan
RecommendationReplies ==
    {[llm_ok |-> TRUE, llm_plan |-> p, message_ok |-> TRUE] :
        p \in {"Silver", "Gold", "Platinum"}}
    \cup {[llm_ok |-> FALSE, llm_plan |-> "", message_ok |-> TRUE]}

\* the collection after the first turn of the enquiry and a write of
\* travel_info
SessionHolding(travel_info) ==
    set_collected_info(
        orchestrate_chat([s \in Sessions |-> <<>>], "s1", "Japan",
            [QuietTurn EXCEPT
               !.cls = Classification("TRAVEL", "product_inquiry", 80, FALSE)],
            NoFault).c,
        "s1", "travel_info", travel_info)

NoRecommendation ==
    [op |-> "none", sid |-> "s1", llm |-> QuietTurn.rec, plan |-> "",
     has_texts |-> FALSE, before |-> <<>>, turns |-> 0]

InitRecommendation ==
    /\ \E b \in StoredBudgets, d \in {None, Some("Japan")},
          n \in {None, Some(10)}, med \in {None, Some("no")} :
          db = SessionHolding(
                  OneField("budget_preference", b) @@ OneField("destination", d)
                  @@ OneField("travel_duration_days", n)
                  @@ OneField("pre_existing_medical_conditions", med))
    /\ last = NoRecommendation
    /\ proc = [p \in Callers |-> IdleProc]

\* one call of get_recommendation
GetRecommendation(sid) ==
    \E llm \in RecommendationReplies :
        /\ last.turns < MaxAgentCalls
        /\ With(get_recommendation(db, sid, llm), LAMBDA r :
              /\ db' = r.c
              /\ last' = [op |-> "get_recommendation", sid |-> sid, llm |-> llm,
                          plan |-> r.plan, has_texts |-> r.has_texts,
                          before |-> db[sid], turns |-> last.turns + 1])
        /\ UNCHANGED proc

NextRecommendation == \E sid \in Sessions : GetRecommendation(sid)

SpecRecommendation == InitRecommendation /\ [][NextRecommendation]_vars

----------------------------------------------------------------------------
(* The flow analysis on its own *)

\* the places where one call of should_continue_with_current_agent looks the
\* session up: line 68 in each of its three analyses, lines 217 and 227 in
\* should_continue_conversation
LookupSites == {"analysis_1", "analysis_2", "analysis_3", "context"}

\* should_continue_conversation when the lookups of the set down raise.  A
\* lookup that raises at line 68 sends analyze_conversation_flow into its
\* handler (line 101), which reads current_agent before it was ever bound and
\* raises itself; the handler of line 224 then looks the session up again.
should_continue_conversation_failing(c, sid, chat_history, llm, down) ==
    IF "analysis_1" \in down
    THEN IF "context" \in down
         THEN [c |-> c, should_continue |-> FALSE, raised |-> TRUE]
         ELSE With(get_session(c, sid), LAMBDA gs :
                [c |-> gs.c,
                 should_continue |->
                    HasProductContext(gs.session.conversation_context.primary_product),
                 raised |-> FALSE])
    ELSE With(analyze_conversation_flow(c, sid, chat_history, llm), LAMBDA a :
           IF a.confidence < 50 /\ "context" \in down
           THEN [c |-> a.c, should_continue |-> FALSE, raised |-> TRUE]
           ELSE With(should_continue_conversation(c, sid, chat_history, llm), LAMBDA s :
                  [c |-> s.c, should_continue |-> s.should_continue,
                   raised |-> FALSE]))

\* get_continuation_reason (lines 231-242): one more analysis, whose failure
\* is caught
get_continuation_reason(c, sid, chat_history, llm, down) ==
    IF "analysis_2" \in down THEN c
    ELSE analyze_conversation_flow(c, sid, chat_history, llm).c

\* should_continue_with_current_agent when the lookups of the set down raise:
\* whatever leaves should_continue_conversation or the third analysis is
\* answered by the handler of line 274
should_continue_with_current_agent_failing(c, sid, chat_history, llm, down) ==
    With(should_continue_conversation_failing(c, sid, chat_history, llm, down), LAMBDA s1 :
      IF s1.raised
      THEN [c |-> s1.c, should_continue |-> TRUE, confidence |-> 50,
            decision |-> "continue"]
      ELSE IF "analysis_3" \in down
      THEN [c |-> get_continuation_reason(s1.c, sid, chat_history, llm, down),
            should_continue |-> TRUE, confidence |-> 50, decision |-> "continue"]
      ELSE With(analyze_conversation_flow(
                    get_continuation_reason(s1.c, sid, chat_history, llm, down),
                    sid, chat_history, llm), LAMBDA a3 :
             [c |-> a3.c, should_continue |-> s1.should_continue,
              confidence |-> a3.confidence, decision |-> a3.decision]))

\* replies of the model to the flow prompt
FlowReplies ==
    {[kind |-> "json", decision |-> d, confidence |-> k] :
        d \in {"continue", "switch", "clarify"}, k \in {0, 49, 50, 79, 80, 100}}
    \cup {[kind |-> "unparsable", decision |-> "", confidence |-> 0],
          [kind |-> "error", decision |-> "", confidence |-> 0]}

\* the collection after one turn, the routing of which left primary_product
\* in the conversation context
SessionInContext(primary_product) ==
    update_conversation_context(
        orchestrate_chat([s \in Sessions |-> <<>>], "s1", "Japan",
            [QuietTurn EXCEPT
               !.cls = Classification("TRAVEL", "product_inquiry", 80, FALSE)],
            NoFault).c,
        "s1", [primary_product |-> primary_product])

\* the collection holding a session that has no turn yet
SessionWithoutTurn(sid) == get_session([s \in Sessions |-> <<>>], sid).c

NoFlowCall ==
    [op |-> "none", sid |-> "s1", llm |-> [kind |-> "error", decision |-> "", confidence |-> 0],
     down |-> {}, decision |-> "", confidence |-> 0, should_continue |-> FALSE,
     before |-> <<>>, turns |-> 0]

InitFlow ==
    /\ \/ \E primary_product \in {"None", "UNKNOWN", "TRAVEL", "MAID"} :
             db = SessionInContext(primary_product)
       \/ db = SessionWithoutTurn("s1")
    /\ last = NoFlowCall
    /\ proc = [p \in Callers |-> IdleProc]

\* one call of should_continue_conversation
ShouldContinueConversation(sid) ==
    \E llm \in FlowReplies :
      /\ last.turns < MaxAgentCalls
      /\ With(analyze_conversation_flow(db, sid, get_chat_history(db, sid), llm), LAMBDA a :
         With(should_continue_conversation(db, sid, get_chat_history(db, sid), llm), LAMBDA r :
           /\ db' = r.c
           /\ last' = [op |-> "should_continue_conversation", sid |-> sid, llm |-> llm,
                       down |-> {}, decision |-> a.decision,
                       confidence |-> a.confidence,
                       should_continue |-> r.should_continue,
                       before |-> db[sid], turns |-> last.turns + 1]))
      /\ UNCHANGED proc

\* one call of should_continue_with_current_agent, some lookups of which raise
ShouldContinueWithCurrentAgent(sid) ==
    \E llm \in FlowReplies, down \in SUBSET LookupSites :
      /\ last.turns < MaxAgentCalls
      /\ With(should_continue_with_current_agent_failing(
                  db, sid, get_chat_history(db, sid), llm, down), LAMBDA r :
           /\ db' = r.c
           /\ last' = [op |-> "should_continue_with_current_agent", sid |-> sid,
                       llm |-> llm, down |-> down, decision |-> r.decision,
                       confidence |-> r.confidence,
                       should_continue |-> r.should_continue,
                       before |-> db[sid], turns |-> last.turns + 1])
      /\ UNCHANGED proc

NextFlow ==
    \E sid \in Sessions :
       \/ ShouldContinueConversation(sid)
       \/ ShouldContinueWithCurrentAgent(sid)

SpecFlow == InitFlow /\ [][NextFlow]_vars

----------------------------------------------------------------------------
(* The fallback manager on its own *)

\* error types and agent types the callers pass, and one that has no pool
ErrorTypes == {"general_error", "agent_error", "timeout_error", "unlisted"}
AgentTypes == {"travel_agent", "maid_agent", "payment_agent", "unlisted"}

ErrorCountOf(c, sid) == c[sid][1].conversation_context.error_count

NoFallbackCall ==
    [op |-> "none", sid |-> "s1", error_type |-> "", agent_type |-> "",
     faults |-> {}, out |-> "", escalate |-> FALSE, count_before |-> 0]

InitFallback ==
    /\ db = EnquiryOpened
    /\ last = NoFallbackCall
    /\ proc = [p \in Callers |-> IdleProc]

\* one call of should_escalate
ShouldEscalate(sid) ==
    \E error_type \in ErrorTypes, faults \in SUBSET {"should_escalate"} :
      /\ ErrorCountOf(db, sid) < MaxErrorCount
      /\ With(should_escalate(db, sid, error_type, faults), LAMBDA r :
           /\ db' = r.c
           /\ last' = [NoFallbackCall EXCEPT
                         !.op = "should_escalate", !.sid = sid,
                         !.error_type = error_type, !.faults = faults,
                         !.escalate = r.escalate,
                         !.count_before = ErrorCountOf(db, sid)])
      /\ UNCHANGED proc

\* one call of get_fallback_response
GetFallbackResponse(sid) ==
    \E error_type \in ErrorTypes,
       faults \in SUBSET {"should_escalate", "increment_error_count"} :
      /\ ErrorCountOf(db, sid) < MaxErrorCount
      /\ With(get_fallback_response(db, sid, error_type, faults), LAMBDA r :
           /\ db' = r.c
           /\ last' = [NoFallbackCall EXCEPT
                         !.op = "get_fallback_response", !.sid = sid,
                         !.error_type = error_type, !.faults = faults,
                         !.out = r.out,
                         !.count_before = ErrorCountOf(db, sid)])
      /\ UNCHANGED proc

\* one call of handle_agent_failure
HandleAgentFailure(sid) ==
    \E agent_type \in AgentTypes :
      /\ ErrorCountOf(db, sid) < MaxErrorCount
      /\ With(handle_agent_failure(db, sid, agent_type), LAMBDA r :
           /\ db' = r.c
           /\ last' = [NoFallbackCall EXCEPT
                         !.op = "handle_agent_failure", !.sid = sid,
                         !.agent_type = agent_type, !.out = r.out,
                         !.count_before = ErrorCountOf(db, sid)])
      /\ UNCHANGED proc

NextFallback ==
    \E sid \in Sessions :
       \/ ShouldEscalate(sid)
       \/ GetFallbackResponse(sid)
       \/ HandleAgentFailure(sid)

SpecFallback == InitFallback /\ [][NextFallback]_vars

----------------------------------------------------------------------------
(* process_normal_intent on its own *)

\* f"{product.value.lower()}_agent"
AgentTypeOf(product) ==
    CASE product = "TRAVEL" -> "travel_agent"
      [] product = "MAID" -> "maid_agent"
      [] product = "POLICY_CLAIM_STATUS" -> "policy_claim_status_agent"
      [] OTHER -> "unknown_agent"

\* process_normal_intent when the agent it calls raises: the handlers of
\* lines 624-626 and 646-648 answer with handle_agent_failure
process_normal_intent_raising(c, sid, intent_result) ==
    IF intent_result.intent = "payment_inquiry"
    THEN handle_agent_failure(set_stage(c, sid, "payment"), sid, "payment_agent")
    ELSE IF intent_result.product \in agent_map
    THEN handle_agent_failure(
             set_stage(c, sid, InquiryStage(intent_result.product)), sid,
             AgentTypeOf(intent_result.product))
    ELSE get_fallback_response(c, sid, "product_not_available", NoFaults)

\* whether process_normal_intent calls an agent for intent_result
CallsAgent(intent_result) ==
    \/ intent_result.intent = "payment_inquiry"
    \/ intent_result.product \in agent_map

NoDispatch ==
    [op |-> "none", sid |-> "s1", intent_result |-> ClassifierError,
     agent_raised |-> FALSE, out |-> "", count_before |-> 0, count_after |-> 0,
     turns |-> 0, msg |-> "", x |-> NothingExtracted, before |-> <<>>]

InitDispatch ==
    /\ db = EnquiryOpened
    /\ last = NoDispatch
    /\ proc = [p \in Callers |-> IdleProc]

\* one call of process_normal_intent, the agents answering
ProcessNormalIntent(sid) ==
    \E m \in ValidMessages, cls \in Classifications, x \in Extractions :
      /\ last.turns < MaxAgentCalls
      /\ With(process_normal_intent(db, sid, get_primary_intent(m, cls), m,
                                    [QuietTurn EXCEPT !.x = x]), LAMBDA r :
           /\ db' = r.c
           /\ last' = [op |-> "process_normal_intent", sid |-> sid,
                       intent_result |-> get_primary_intent(m, cls),
                       agent_raised |->
                          (get_primary_intent(m, cls).intent = "payment_inquiry"
                           /\ ~PaymentCallMatchesSignature),
                       out |-> r.out,
                       count_before |-> ErrorCountOf(db, sid),
                       count_after |-> ErrorCountOf(r.c, sid),
                       turns |-> last.turns + 1,
                       msg |-> m, x |-> x, before |-> db[sid]])
      /\ UNCHANGED proc

\* one call of process_normal_intent, the agent it calls raising
ProcessNormalIntentAgentRaises(sid) ==
    \E m \in ValidMessages, cls \in Classifications :
      /\ last.turns < MaxAgentCalls
      /\ CallsAgent(get_primary_intent(m, cls))
      /\ With(process_normal_intent_raising(db, sid, get_primary_intent(m, cls)), LAMBDA r :
           /\ db' = r.c
           /\ last' = [op |-> "process_normal_intent", sid |-> sid,
                       intent_result |-> get_primary_intent(m, cls),
                       agent_raised |-> TRUE, out |-> r.out,
                       count_before |-> ErrorCountOf(db, sid),
                       count_after |-> ErrorCountOf(r.c, sid),
                       turns |-> last.turns + 1,
                       msg |-> m, x |-> NothingExtracted, before |-> db[sid]])
      /\ UNCHANGED proc

NextDispatch ==
    \E sid \in Sessions :
       \/ ProcessNormalIntent(sid)
       \/ ProcessNormalIntentAgentRaises(sid)

SpecDispatch == InitDispatch /\ [][NextDispatch]_vars

----------------------------------------------------------------------------
(* validate_user_input on its own *)

\* the texts validated: up to MaxRuns runs of a space, a letter, a digit or
\* one of two punctuation marks, of lengths around the limits of the checks
RunLengths == {1, 11, 999, 1000, 1001}
Runs == {Run(ch, n) : ch \in {" ", "a", "7", "!", "?"}, n \in RunLengths}
Texts ==
    {t \in UNION {[1..k -> Runs] : k \in 0..MaxRuns} :
        \A i \in 1..(Len(t) - 1) : t[i].ch # t[i + 1].ch}

InitValidation ==
    /\ db = [s \in Sessions |-> <<>>]
    /\ \E t \in Texts : last = [op |-> "none", text |-> t, issue |-> ""]
    /\ proc = [p \in Callers |-> IdleProc]

\* one call of validate_user_input
ValidateUserInput ==
    /\ last.op = "none"
    /\ last' = [op |-> "validate_user_input", text |-> last.text,
                issue |-> issue_type(last.text)]
    /\ UNCHANGED <<db, proc>>

NextValidation == ValidateUserInput

SpecValidation == InitValidation /\ [][NextValidation]_vars

----------------------------------------------------------------------------
(* app/main.py and utils/zoom/engagement.py: the live-agent endpoints *)

\* In the specification of this section db holds the process memory of the
\* service: active_engagements (0 where the key is absent) and the
\* EngagementManager objects by the order of their creation; proc holds the
\* contact-center platform's side and the cleanups in progress; last is the
\* last HTTP request and its response.
ChatSessions == {"w1", "w2"}

\* EngagementManager.__init__ (lines 35-67).  task is the position of the
\* background task initiate_engagement, ws_connected the state of the
\* realtime connection, agent_event whether the agent-connected frame was
\* delivered to this manager, closed whether close() was called.
NewManager(chat) ==
    [chat |-> chat, auth_token |-> FALSE, engagement_id |-> FALSE,
     is_agent_connected |-> FALSE, ws_connected |-> FALSE,
     task |-> "scheduled", agent_event |-> FALSE, closed |-> FALSE]

\* the frames the platform delivers on the realtime connection
Frames ==
    {[name |-> "/chat/message", eventName |-> "send_msg", type |-> "2"],
     [name |-> "/chat/message", eventName |-> "send_msg", type |-> "1"],
     [name |-> "/chat/message", eventName |-> "send_msg", type |-> "3"],
     [name |-> "/chat/message", eventName |-> "chat_ended", type |-> ""],
     [name |-> "/chat/typingIndicator", eventName |-> "", type |-> ""]}

\* _handle_websocket_message (lines 102-185) on the manager's fields
handle_websocket_message_any_send_msg(manager, frame) ==
    IF frame.name = "/chat/message" /\ frame.eventName = "send_msg"
    THEN [manager EXCEPT !.is_agent_connected = TRUE]
    ELSE manager
handle_websocket_message(manager, frame) ==
    IF frame.name = "/chat/message" /\ frame.eventName = "send_msg"
       /\ frame.type = "2"
    THEN [manager EXCEPT !.is_agent_connected = TRUE]
    ELSE manager

\* start_chat_session (lines 114-135): the response and the memory after it
start_chat_session_overwriting(mem, chat) ==
    [status |-> 200,
     mem |-> [active_engagements |->
                  [mem.active_engagements EXCEPT ![chat] = Len(mem.managers) + 1],
              managers |-> Append(mem.managers, NewManager(chat))]]
start_chat_session(mem, chat) ==
    IF mem.active_engagements[chat] # 0
    THEN [status |-> 409, mem |-> mem]
    ELSE [status |-> 200,
          mem |-> [active_engagements |->
                       [mem.active_engagements EXCEPT ![chat] = Len(mem.managers) + 1],
                   managers |-> Append(mem.managers, NewManager(chat))]]

\* EngagementManager.send_message (lines 374-408): whether the text is posted
send_message(manager) ==
    /\ manager.engagement_id
    /\ manager.auth_token
    /\ manager.is_agent_connected

\* send_customer_message (lines 138-153): the status, and whether the text
\* was posted to the platform.  A manager whose HTTP client was closed raises
\* in the post.
send_customer_message_unchecked(mem, chat) ==
    IF mem.active_engagements[chat] = 0
    THEN [status |-> 404, posted |-> FALSE]
    ELSE With(mem.managers[mem.active_engagements[chat]], LAMBDA manager :
           IF manager.engagement_id /\ manager.auth_token /\ manager.closed
           THEN [status |-> 500, posted |-> FALSE]
           ELSE [status |-> 200,
                 posted |-> manager.engagement_id /\ manager.auth_token])
send_customer_message(mem, chat) ==
    IF mem.active_engagements[chat] = 0
    THEN [status |-> 404, posted |-> FALSE]
    ELSE With(mem.managers[mem.active_engagements[chat]], LAMBDA manager :
           IF ~manager.is_agent_connected
           THEN [status |-> 400, posted |-> FALSE]
           ELSE IF send_message(manager) /\ manager.closed
           THEN [status |-> 500, posted |-> FALSE]
           ELSE [status |-> 200, posted |-> send_message(manager)])

\* the manager created last for chat, 0 when there is none
LatestManager(mem, chat) ==
    IF \E mid \in DOMAIN mem.managers : mem.managers[mid].chat = chat
    THEN CHOOSE mid \in DOMAIN mem.managers :
            /\ mem.managers[mid].chat = chat
            /\ \A other \in DOMAIN mem.managers :
                  mem.managers[other].chat = chat => other <= mid
    ELSE 0

\* ended tells whether the engagement created last for the chat had been
\* delivered chat_ended when the request arrived
NoRequest ==
    [op |-> "none", chat |-> "w1", status |-> 0, posted |-> FALSE,
     manager_before |-> 0, manager_after |-> 0, others_untouched |-> TRUE,
     ended |-> FALSE]

InitEngagement ==
    /\ db = [active_engagements |-> [chat \in ChatSessions |-> 0],
             managers |-> <<>>]
    /\ last = NoRequest
    /\ proc = [posted |-> {}, cleanups |-> [chat \in ChatSessions |-> 0],
               notified |-> {}, keeps_notices |-> FALSE]

\* POST /chats/{session_id}/start
StartChatSession(chat) ==
    /\ Len(db.managers) < MaxManagers \/ db.active_engagements[chat] # 0
    /\ With(start_chat_session(db, chat), LAMBDA r :
         /\ db' = r.mem
         /\ last' = [NoRequest EXCEPT
                       !.op = "start", !.chat = chat, !.status = r.status,
                       !.ended = LatestManager(db, chat) \in proc.notified,
                       !.manager_before = db.active_engagements[chat],
                       !.manager_after = r.mem.active_engagements[chat],
                       !.others_untouched =
                          /\ SubSeq(r.mem.managers, 1, Len(db.managers)) = db.managers
                          /\ \A other \in ChatSessions \ {chat} :
                                r.mem.active_engagements[other]
                                    = db.active_engagements[other]])
    /\ UNCHANGED proc

\* the steps of the background task initiate_engagement (lines 226-295):
\* get_auth_token, the realtime connection, the incoming request; each of
\* them may fail, which ends the task, and the two HTTP requests do fail once
\* close() has closed the manager's HTTP client
InitiateEngagementStep(mid) ==
    /\ mid \in DOMAIN db.managers
    /\ db.managers[mid].task \in {"scheduled", "authorized", "connected"}
    /\ \E ok \in BOOLEAN :
         db' = [db EXCEPT !.managers[mid] =
                  IF ~ok \/ (@.closed /\ @.task # "authorized")
                  THEN [@ EXCEPT !.task = "failed"]
                  ELSE IF @.task = "scheduled"
                  THEN [@ EXCEPT !.task = "authorized", !.auth_token = TRUE]
                  ELSE IF @.task = "authorized"
                  THEN [@ EXCEPT !.task = "connected", !.ws_connected = TRUE]
                  ELSE [@ EXCEPT !.task = "done", !.engagement_id = TRUE]]
    /\ UNCHANGED <<last, proc>>

\* what handle_agent_response (main.py lines 93-102) does with the text the
\* manager hands it: the text is forwarded to the customer; it is a string,
\* so no event is read from it and nothing is cleaned up
ForwardsClosedNotice(frame) ==
    frame.name = "/chat/message" /\ frame.eventName = "chat_ended"

\* a frame delivered to the listener of a connected manager; notified keeps
\* the managers whose customer was sent "This chat has been closed.", in
\* the behaviours that keep track of the notices
WebsocketMessage(mid) ==
    /\ mid \in DOMAIN db.managers
    /\ db.managers[mid].ws_connected
    /\ \E frame \in Frames :
         /\ db' = [db EXCEPT !.managers[mid] =
                      [handle_websocket_message(@, frame) EXCEPT
                         !.agent_event = @ \/ (frame.eventName = "send_msg"
                                               /\ frame.type = "2")]]
         /\ proc' = [proc EXCEPT !.notified =
                        IF proc.keeps_notices /\ ForwardsClosedNotice(frame)
                        THEN @ \cup {mid} ELSE @]
         /\ <<db', proc'>> # <<db, proc>>
    /\ UNCHANGED last

\* POST /chats/{session_id}/message
SendCustomerMessage(chat) ==
    /\ With(send_customer_message(db, chat), LAMBDA r :
         /\ last' = [NoRequest EXCEPT
                       !.op = "message", !.chat = chat, !.status = r.status,
                       !.ended = LatestManager(db, chat) \in proc.notified,
                       !.posted = r.posted,
                       !.manager_before = db.active_engagements[chat],
                       !.manager_after = db.active_engagements[chat]]
         /\ proc' = [proc EXCEPT !.posted =
                        IF r.posted THEN @ \cup {db.active_engagements[chat]} ELSE @])
    /\ UNCHANGED db

\* POST /chats/{session_id}/end (lines 156-166) up to the await of
\* close_engagement_and_cleanup (line 109): close() ends the connection
CleanupsInProgress ==
    LET RECURSIVE Sum(_)
        Sum(chats) == IF chats = {} THEN 0
                      ELSE LET chat == CHOOSE c \in chats : TRUE
                           IN  proc.cleanups[chat] + Sum(chats \ {chat})
    IN  Sum(ChatSessions)

EndChatSession(chat) ==
    /\ CleanupsInProgress < MaxCleanups
    /\ IF db.active_engagements[chat] = 0
       THEN /\ last' = [NoRequest EXCEPT
                          !.op = "end", !.chat = chat, !.status = 404]
            /\ UNCHANGED <<db, proc>>
       ELSE /\ db' = [db EXCEPT !.managers[db.active_engagements[chat]] =
                        [@ EXCEPT !.closed = TRUE, !.ws_connected = FALSE]]
            /\ proc' = [proc EXCEPT !.cleanups[chat] = @ + 1]
            /\ last' = [NoRequest EXCEPT
                          !.op = "end", !.chat = chat, !.status = 0,
                          !.manager_before = db.active_engagements[chat],
                          !.manager_after = db.active_engagements[chat]]

\* close_engagement_and_cleanup after the await: del active_engagements[chat]
\* (line 110), a KeyError when the key is gone
CleanupFinished(chat) ==
    /\ proc.cleanups[chat] > 0
    /\ proc' = [proc EXCEPT !.cleanups[chat] = @ - 1]
    /\ db' = [db EXCEPT !.active_engagements[chat] = 0]
    /\ last' = [NoRequest EXCEPT
                  !.op = "end", !.chat = chat,
                  !.status = IF db.active_engagements[chat] = 0 THEN 500 ELSE 200,
                  !.manager_before = db.active_engagements[chat]]

NextEngagement ==
    \/ \E chat \in ChatSessions :
          \/ StartChatSession(chat)
          \/ SendCustomerMessage(chat)
          \/ EndChatSession(chat)
          \/ CleanupFinished(chat)
    \/ \E mid \in 1..MaxManagers :
          \/ InitiateEngagementStep(mid)
          \/ WebsocketMessage(mid)

SpecEngagement == InitEngagement /\ [][NextEngagement]_vars

\* the same endpoints and frames, the closing notices being kept track of
InitChatEnded ==
    /\ db = [active_engagements |-> [chat \in ChatSessions |-> 0],
             managers |-> <<>>]
    /\ last = NoRequest
    /\ proc = [posted |-> {}, cleanups |-> [chat \in ChatSessions |-> 0],
               notified |-> {}, keeps_notices |-> TRUE]

SpecChatEnded == InitChatEnded /\ [][NextEngagement]_vars

----------------------------------------------------------------------------
(* Specification of the stages: orchestrate_chat called turn after turn on *)
(* one session, which starts never seen, each turn handled by the handler   *)
(* of the stage the session is in.  last keeps the inputs of the turn: the  *)
(* message, the results of the model calls and the documents before it.    *)

\* two messages input validation accepts
StageMessages == {m \in {"Japan", "10"} : validate_user_input(m) = "valid"}

\* the classifications the turns of this specification consult
StageClassifications ==
    {Classification("TRAVEL", "product_inquiry", 80, FALSE),
     Classification("TRAVEL", "payment_inquiry", 80, FALSE),
     Classification("TRAVEL", "informational", 80, FALSE),
     Classification("MAID", "product_inquiry", 80, FALSE),
     Classification("MAID", "payment_inquiry", 80, FALSE),
     Classification("UNKNOWN", "informational", 80, FALSE),
     Classification("UNKNOWN", "other", 80, FALSE),
     Classification("UNKNOWN", "connect_to_live_agent", 80, FALSE),
     ClassifierError}

\* the inputs a turn at stage recommendation may consult
StageRecommendationInputs ==
    {[QuietTurn EXCEPT !.rintent = ri, !.cls = cls] :
        ri \in RecommendationIntents, cls \in StageClassifications}
    \cup {[QuietTurn EXCEPT !.rintent = [intent |-> "purchase", confidence |-> 90],
                             !.pay = pay] : pay \in PaymentStages}
    \cup {[QuietTurn EXCEPT !.rag = "error"]}

NoStageTurn ==
    [op |-> "none", sid |-> "s1", msg |-> "", in |-> QuietTurn, reply |-> "",
     before |-> <<>>, turns |-> 0]

InitStages ==
    /\ db = [s \in Sessions |-> <<>>]
    /\ last = NoStageTurn
    /\ proc = [p \in Callers |-> IdleProc]

\* one call of orchestrate_chat in which no store operation fails
StageTurn(sid, m, in) ==
    /\ last.turns < MaxStageTurns
    /\ With(orchestrate_chat(db, sid, m, in, NoFault), LAMBDA r :
          /\ db' = r.c
          /\ last' = [op |-> "orchestrate_chat", sid |-> sid, msg |-> m,
                      in |-> in, reply |-> r.out, before |-> db[sid],
                      turns |-> last.turns + 1])
    /\ UNCHANGED proc

StageTurnRejected(sid) ==
    \E m \in InvalidMessages :
        /\ validate_user_input(m) # "valid"
        /\ StageTurn(sid, m, QuietTurn)

\* cls is what the primary classifier would return for the message; the
\* stage does not consult it
StageTurnPayment(sid) ==
    /\ StageOf(sid) = "payment"
    /\ \E m \in StageMessages, pay \in PaymentStages,
          cls \in {QuietTurn.cls,
                   Classification("MAID", "product_inquiry", 80, FALSE)} :
         StageTurn(sid, m, [QuietTurn EXCEPT !.pay = pay, !.cls = cls])

StageTurnAwaitingProduct(sid) ==
    /\ StageOf(sid) = "awaiting_product_for_rag"
    /\ \E m \in StageMessages, rag \in {"ok", "error"},
          cls \in {Classification("TRAVEL", "informational", 80, FALSE),
                   Classification("MAID", "product_inquiry", 80, FALSE),
                   Classification("UNKNOWN", "other", 80, FALSE),
                   ClassifierError} :
         StageTurn(sid, m, [QuietTurn EXCEPT !.cls = cls, !.rag = rag])

StageTurnTravelInquiry(sid) ==
    /\ StageOf(sid) = "travel_inquiry"
    /\ \E m \in StageMessages, x \in Extractions, rec \in RecommendationCalls :
         StageTurn(sid, m, [QuietTurn EXCEPT !.x = x, !.rec = rec])

StageTurnRecommendation(sid) ==
    /\ StageOf(sid) = "recommendation"
    /\ \E m \in StageMessages, in \in StageRecommendationInputs :
         StageTurn(sid, m, in)

StageTurnRouting(sid) ==
    /\ StageOf(sid) \in {"initial", "live_agent"}
    /\ \E m \in StageMessages, flow \in FlowAnswers(sid),
          cls \in StageClassifications :
         StageTurn(sid, m, [QuietTurn EXCEPT !.flow = flow, !.cls = cls])

NextStages ==
    \E sid \in Sessions :
        \/ StageTurnRejected(sid)
        \/ StageTurnPayment(sid)
        \/ StageTurnAwaitingProduct(sid)
        \/ StageTurnTravelInquiry(sid)
        \/ StageTurnRecommendation(sid)
        \/ StageTurnRouting(sid)

SpecStages == InitStages /\ [][NextStages]_vars

\* the turn last records: whether it was a valid message to a session at the
\* given stage, the document before and after it, and what the primary
\* classifier returned for the message
StageTurnIn(stage) ==
    /\ last.op = "orchestrate_chat"
    /\ validate_user_input(last.msg) = "valid"
    /\ last.before # <<>>
    /\ last.before[1].stage = stage
Before == last.before[1]
After == db[last.sid][1]
Classified == get_primary_intent(last.msg, last.in.cls)

\* whether the turn last records called get_primary_intent on its message:
\* the stages payment and travel_inquiry hand the message to their agent
\* (lines 277, 459), and stage recommendation calls it at line 376, after
\* its own classification
ClassifierConsulted ==
    \/ last.before = <<>>
    \/ Before.stage \notin {"payment", "travel_inquiry", "recommendation"}
    \/ Before.stage = "recommendation" /\ last.in.rintent.intent # "error"

\* the test of line 381 on the turn last records
SwitchesProduct ==
    /\ last.in.rintent.intent # "error"
    /\ Classified.product # "UNKNOWN"
    /\ Classified.product # Before.conversation_context.primary_product

\* the session before the turn with nothing collected
Emptied == clear_collected_info([s \in Sessions |-> last.before], last.sid)

----------------------------------------------------------------------------
(* Specification of the travel enquiry stage: the turns of a session that  *)
(* is in stage travel_inquiry, from each of the ways a conversation gets   *)
(* there.                                                                   *)

\* the collection after the turns of path, a sequence of <<message, inputs>>,
\* were taken on a session never seen before
RECURSIVE SessionAlong(_)
SessionAlong(path) ==
    IF path = <<>> THEN [s \in Sessions |-> <<>>]
    ELSE orchestrate_chat(SessionAlong(SubSeq(path, 1, Len(path) - 1)), "s1",
                          path[Len(path)][1], path[Len(path)][2], NoFault).c

AsksForTravel ==
    [QuietTurn EXCEPT !.cls = Classification("TRAVEL", "product_inquiry", 80, FALSE)]
GivesThreeFields ==
    [QuietTurn EXCEPT !.x = Extraction("ok", Some("Japan"), Some(10), Some("no"),
                                       None, FALSE)]
GivesAllFields ==
    [QuietTurn EXCEPT !.x = Extraction("ok", Some("Japan"), Some(10), Some("no"),
                                       Some("budget-friendly"), FALSE)]
AsksForLiveAgent ==
    [QuietTurn EXCEPT !.rintent = [intent |-> "other", confidence |-> 90],
                      !.cls = Classification("UNKNOWN", "connect_to_live_agent",
                                             80, FALSE)]
AsksForTravelUnreadable ==
    [AsksForTravel EXCEPT !.x = Extraction("error", None, None, None, None, FALSE)]

\* the conversations that lead to stage travel_inquiry: a product enquiry;
\* the same with three answers given; and an enquiry answered in full,
\* left for a live agent and taken up again with a message the extraction
\* fails on
TravelEnquiryPaths ==
    {<< <<"Japan", AsksForTravel>> >>,
     << <<"Japan", AsksForTravel>>, <<"Japan", GivesThreeFields>> >>,
     << <<"Japan", AsksForTravel>>, <<"Japan", GivesAllFields>>,
        <<"Japan", AsksForLiveAgent>>, <<"Japan", AsksForTravelUnreadable>> >>}

InitTravelStage ==
    /\ \E path \in TravelEnquiryPaths : db = SessionAlong(path)
    /\ last = NoStageTurn
    /\ proc = [p \in Callers |-> IdleProc]

NextTravelStage == \E sid \in Sessions : StageTurnTravelInquiry(sid)

SpecTravelStage == InitTravelStage /\ [][NextTravelStage]_vars

----------------------------------------------------------------------------
(* Specification of the payment agent: run_payment_agent called on a       *)
(* session never seen and on one whose first message was a payment enquiry  *)
(* about travel insurance, with every analysis the model can return.       *)

PaymentUserIntents == {"confirm_plan", "provide_details", "cancel", "question"}
PaymentFlowStages ==
    {"plan_confirmation", "collecting_details", "processing_payment", "completed"}

\* the analyses of the payment model: every stage with every intent and
\* extraction, a reply that mentions the gateway, and a failed call
PaymentAnalyses ==
    {PaymentStage(st, ui, n, e, FALSE) :
        st \in PaymentFlowStages, ui \in PaymentUserIntents,
        n \in {None, Some("John Smith"), Some("J0hn")},
        e \in {None, Some("John@X.com"), Some("not-an-email")}}
    \cup {PaymentStage("completed", "question", None, None, TRUE),
          PaymentStage("error", "", None, None, FALSE)}

AsksToPay ==
    [QuietTurn EXCEPT !.cls = Classification("TRAVEL", "payment_inquiry", 80, FALSE)]

\* collected_info.payment_info of the stored session, {} when there is none
StoredPaymentInfo(c, sid) ==
    IF Found(c, sid) THEN PaymentInfoOf(c[sid][1]) ELSE EmptyMap

NoPaymentCall ==
    [op |-> "none", sid |-> "s1", msg |-> "", pay |-> QuietTurn.pay,
     output |-> "", stage |-> "", payment_link |-> FALSE, before |-> <<>>,
     calls |-> 0]

InitPayment ==
    /\ \E path \in {<<>>, << <<"Japan", AsksToPay>> >>} : db = SessionAlong(path)
    /\ last = NoPaymentCall
    /\ proc = [p \in Callers |-> IdleProc]

\* one call of run_payment_agent
RunPaymentAgent(sid) ==
    \E m \in StageMessages, pay \in PaymentAnalyses :
      /\ last.calls < MaxPaymentCalls
      /\ With(run_payment_agent(db, sid, m, pay), LAMBDA r :
           /\ db' = r.c
           /\ last' = [op |-> "run_payment_agent", sid |-> sid, msg |-> m,
                       pay |-> pay, output |-> r.output, stage |-> r.stage,
                       payment_link |-> r.payment_link, before |-> db[sid],
                       calls |-> last.calls + 1])
      /\ UNCHANGED proc

NextPayment == \E sid \in Sessions : RunPaymentAgent(sid)

SpecPayment == InitPayment /\ [][NextPayment]_vars

\* whether the call last records found a primary_product in the session
\* (line 69)
PaymentForKnownProduct ==
    /\ last.before # <<>>
    /\ last.before[1].conversation_context.primary_product # "None"


----------------------------------------------------------------------------
(* The realtime connection: utils/zoom/websocket.py and the frame handler *)

\* In the specifications of this section db holds the fields of one
\* WebSocketManager (tasks by their state), proc the transport, the position
\* of close() and the counters, last the last step and its outcome.

\* the names bound in the module websocket.py by its imports (lines 1-7)
ImportedNames == {"asyncio", "json", "logging", "uuid", "Callable", "Awaitable", "websockets"}

\* WebSocketManager.__init__ (lines 22-38)
NewWebSocketManager ==
    [is_connected |-> FALSE, websocket |-> FALSE,
     listener_task |-> "None", ping_task |-> "None"]

\* A frame as the listener receives it.  text: what the frame's text is
\* ("ping", text that is no JSON, or JSON); data: whether the JSON value is
\* an object; push: whether the object has type "push" and an id; event: the
\* nested event string of a chat message; payload: the text field of a
\* send_msg event; forward_fails: whether the customer callback raises.
RawFrame(text, data, name, event, eventName, type, payload) ==
    [text |-> text, data |-> data, name |-> name, event |-> event,
     eventName |-> eventName, type |-> type, payload |-> payload]
ChatFrame(event, eventName, type, payload) ==
    RawFrame("json", "object", "/chat/message", event, eventName, type, payload)
FrameShapes ==
    {RawFrame("ping", "", "", "", "", "", ""),
     RawFrame("not_json", "", "", "", "", "", ""),
     RawFrame("json", "array", "", "", "", "", ""),
     RawFrame("json", "object", "/chat/typingIndicator", "", "", "", ""),
     RawFrame("json", "object", "/presence", "", "", "", ""),
     ChatFrame("absent", "", "", ""),
     ChatFrame("not_json", "", "", ""),
     ChatFrame("array", "", "", ""),
     ChatFrame("object", "agent_typing", "", ""),
     ChatFrame("object", "chat_ended", "", ""),
     ChatFrame("object", "send_msg", "3", "text"),
     ChatFrame("object", "send_msg", "2", "absent"),
     ChatFrame("object", "send_msg", "2", "text"),
     ChatFrame("object", "send_msg", "1", "text"),
     ChatFrame("object", "send_msg", "1", "blank"),
     ChatFrame("object", "send_msg", "1", "not_json"),
     ChatFrame("object", "send_msg", "1", "empty_ops"),
     ChatFrame("object", "send_msg", "1", "array"),
     ChatFrame("object", "send_msg", "1", "null")}
RawFrames ==
    {[push |-> p, forward_fails |-> f, shape |-> s] :
        p \in BOOLEAN, f \in BOOLEAN, s \in FrameShapes}

Handled(outcome, exception) == [outcome |-> outcome, exception |-> exception]

\* the send_msg type "1" arm (lines 148-159): the inner try catches
\* JSONDecodeError, IndexError and KeyError only
AgentText(payload) ==
    CASE payload = "text" -> Handled("forward", "")
      [] payload = "blank" -> Handled("dropped", "")
      [] payload = "absent" -> Handled("dropped", "")
      [] payload = "not_json" -> Handled("dropped", "JSONDecodeError")
      [] payload = "empty_ops" -> Handled("dropped", "IndexError")
      [] payload = "array" -> Handled("raised", "AttributeError")
      [] OTHER -> Handled("raised", "TypeError")

\* _handle_websocket_message (engagement.py lines 102-185) up to its first
\* call of the customer callback: "forward" when it reaches that call,
\* "dropped" when it returns without it, "raised" when an exception leaves
\* it.  The outer try catches JSONDecodeError only.
handle_frame_catching_all(shape) ==
    IF shape.text = "json"
       /\ shape.name = "/chat/message" /\ shape.data = "object"
       /\ shape.event = "object"
       /\ (shape.eventName = "chat_ended"
           \/ (shape.eventName = "send_msg" /\ shape.type \in {"1", "2"}
               /\ shape.payload = "text"))
    THEN Handled("forward", "")
    ELSE Handled("dropped", "")
handle_frame(shape) ==
    IF shape.text = "ping" THEN Handled("dropped", "")
    ELSE IF shape.text = "not_json" THEN Handled("dropped", "JSONDecodeError")
    ELSE IF shape.data # "object" THEN Handled("raised", "AttributeError")
    ELSE IF shape.name = "/chat/typingIndicator" THEN Handled("dropped", "")
    ELSE IF shape.name # "/chat/message" THEN Handled("dropped", "")
    ELSE IF shape.event = "absent" THEN Handled("dropped", "")
    ELSE IF shape.event = "not_json" THEN Handled("dropped", "JSONDecodeError")
    ELSE IF shape.event # "object" THEN Handled("raised", "AttributeError")
    ELSE IF shape.eventName = "send_msg" /\ shape.type = "1"
         THEN AgentText(shape.payload)
    ELSE IF shape.eventName = "send_msg" /\ shape.type = "2"
         THEN IF shape.payload = "text" THEN Handled("forward", "")
              ELSE Handled("dropped", "")
    ELSE IF shape.eventName = "chat_ended" THEN Handled("forward", "")
    ELSE Handled("dropped", "")

\* send_json (websocket.py lines 128-139) on a connection that is lost:
\* ConnectionClosed is caught and is_connected cleared
send_json(manager, connection) ==
    IF ~manager.is_connected \/ ~manager.websocket THEN manager
    ELSE IF connection # "open" THEN [manager EXCEPT !.is_connected = FALSE]
    ELSE manager

\* _listen_for_messages (lines 92-103) when the callback raised: only
\* ConnectionClosed is caught; the finally clause clears is_connected and
\* the task ends with the exception
ListenerFailed(manager) ==
    [manager EXCEPT !.listener_task = "failed", !.is_connected = FALSE]

\* one pass of the loop of _send_pings (lines 106-125) from the top
send_pings_with_time(manager, connection, pings) ==
    IF ~manager.is_connected
    THEN [manager |-> [manager EXCEPT !.ping_task = "done"], pings |-> pings]
    ELSE IF connection # "open"
    THEN [manager |-> [manager EXCEPT !.ping_task = "done"], pings |-> pings]
    ELSE [manager |-> [manager EXCEPT !.ping_task = "sleeping"],
          pings |-> pings + 1]
send_pings(manager, connection, pings) ==
    IF ~manager.is_connected
    THEN [manager |-> [manager EXCEPT !.ping_task = "done"], pings |-> pings]
    ELSE IF "time" \notin ImportedNames
    THEN [manager |-> [manager EXCEPT !.ping_task = "failed"], pings |-> pings]
    ELSE IF connection # "open"
    THEN [manager |-> [manager EXCEPT !.ping_task = "done"], pings |-> pings]
    ELSE [manager |-> [manager EXCEPT !.ping_task = "sleeping"],
          pings |-> pings + 1]

NoRawFrame == [push |-> FALSE, forward_fails |-> FALSE,
               shape |-> RawFrame("", "", "", "", "", "", "")]
SocketStep(op, frame, outcome) == [op |-> op, frame |-> frame, outcome |-> outcome]

InitSocket ==
    /\ db = NewWebSocketManager
    /\ proc = [connection |-> "none", close |-> "idle", pings |-> 0,
               frames |-> 0, handling |-> NoRawFrame]
    /\ last = SocketStep("none", NoRawFrame, Handled("", ""))

\* connect (lines 40-74): refused, or established; the login payload goes
\* through send_json, and the two tasks are created whatever it did
Connect ==
    \E result \in {"refused", "open", "lost"} :
        /\ db.listener_task = "None" /\ ~db.is_connected
        /\ proc.close = "idle"
        /\ IF result = "refused"
           THEN db' = [db EXCEPT !.is_connected = FALSE, !.websocket = FALSE]
                /\ proc' = proc
           ELSE /\ db' = [send_json([db EXCEPT !.is_connected = TRUE,
                                                !.websocket = TRUE], result)
                             EXCEPT !.listener_task = "pending",
                                    !.ping_task = "pending"]
                /\ proc' = [proc EXCEPT !.connection = result]
        /\ last' = SocketStep("connect", NoRawFrame, Handled(result, ""))

\* the listener receives a frame and the handler runs up to the customer
\* callback; a push frame is acknowledged first through send_json, and the
\* connection may be lost by then
FrameArrives ==
    \E frame \in RawFrames, lost \in BOOLEAN :
        /\ db.listener_task = "pending" /\ proc.connection = "open"
        /\ proc.frames < MaxFrames
        /\ (lost => frame.push /\ frame.shape.text = "json"
                    /\ frame.shape.data = "object")
        /\ With(handle_frame(frame.shape), LAMBDA h :
            With(IF lost THEN send_json(db, "lost") ELSE db, LAMBDA manager :
              /\ db' = CASE h.outcome = "raised" -> ListenerFailed(manager)
                         [] h.outcome = "forward" ->
                                [manager EXCEPT !.listener_task = "handling"]
                         [] OTHER -> manager
              /\ proc' = [proc EXCEPT
                            !.frames = @ + 1,
                            !.connection = IF lost THEN "lost" ELSE @,
                            !.handling = IF h.outcome = "forward"
                                         THEN frame ELSE NoRawFrame]
              /\ last' = SocketStep("frame", frame, h)))

\* the customer callback returns or raises (lines 156, 167, 172)
ForwardReturns ==
    /\ db.listener_task = "handling"
    /\ IF proc.handling.forward_fails
       THEN /\ db' = ListenerFailed(db)
            /\ last' = SocketStep("forward", proc.handling,
                                  Handled("raised", "Exception"))
       ELSE /\ db' = [db EXCEPT !.listener_task = "pending"]
            /\ last' = SocketStep("forward", proc.handling,
                                  Handled("forwarded", ""))
    /\ proc' = [proc EXCEPT !.handling = NoRawFrame]

\* the platform or the network ends the connection
ConnectionLost ==
    /\ proc.connection = "open"
    /\ proc' = [proc EXCEPT !.connection = "lost"]
    /\ last' = SocketStep("lost", NoRawFrame, Handled("", ""))
    /\ UNCHANGED db

\* the listener's iteration ends on a connection that is no longer open
\* (lines 99-103)
ListenerExits ==
    /\ db.listener_task = "pending" /\ proc.connection \in {"lost", "closed"}
    /\ db' = [db EXCEPT !.listener_task = "done", !.is_connected = FALSE]
    /\ last' = SocketStep("listener_exit", NoRawFrame, Handled("", ""))
    /\ UNCHANGED proc

\* the heartbeat task runs (lines 106-125)
SendPings ==
    /\ db.ping_task \in {"pending", "sleeping"}
    /\ proc.pings < MaxFrames
    /\ With(send_pings(db, proc.connection, proc.pings), LAMBDA r :
         /\ db' = r.manager
         /\ proc' = [proc EXCEPT !.pings = r.pings]
         /\ last' = SocketStep("ping", NoRawFrame,
                               Handled(r.manager.ping_task, "")))

\* close (lines 142-162) up to awaiting the listener.  The cancellation of
\* the heartbeat task is delivered while close awaits the closing handshake.
CloseCalled ==
    /\ proc.close = "idle" /\ proc.connection # "none"
    /\ IF ~db.is_connected
       THEN /\ proc' = [proc EXCEPT !.close = "returned"]
            /\ UNCHANGED db
       ELSE /\ db' = [db EXCEPT
                        !.is_connected = FALSE, !.websocket = FALSE,
                        !.ping_task = IF @ \in {"pending", "sleeping"}
                                      THEN "cancelled" ELSE @]
            /\ proc' = [proc EXCEPT !.close = "awaiting_listener",
                                    !.connection = "closed"]
    /\ last' = SocketStep("close", NoRawFrame, Handled("", ""))

\* await self._listener_task (line 160) ends: close returns, or the
\* listener's exception is raised from it
CloseReturns ==
    /\ proc.close = "awaiting_listener"
    /\ db.listener_task \in {"done", "failed"}
    /\ proc' = [proc EXCEPT !.close = IF db.listener_task = "done"
                                      THEN "returned" ELSE "raised"]
    /\ last' = SocketStep("close_returns", NoRawFrame, Handled("", ""))
    /\ UNCHANGED db

NextSocket ==
    \/ Connect
    \/ FrameArrives
    \/ ForwardReturns
    \/ ConnectionLost
    \/ ListenerExits
    \/ SendPings
    \/ CloseCalled
    \/ CloseReturns

SpecSocket == InitSocket /\ [][NextSocket]_vars

\* the event loop runs every task that is ready
SpecSocketFair ==
    /\ SpecSocket
    /\ WF_vars(SendPings)
    /\ WF_vars(ListenerExits)
    /\ WF_vars(ForwardReturns)

----------------------------------------------------------------------------
(* get_fallback_response called by concurrent turns of one session: each    *)
(* caller reads error_count in should_escalate and, when that is false,      *)
(* raises the count with increment_error_count; the read and the increment  *)
(* are two requests to the store, and other callers run between them.       *)

NoEscalationStep ==
    [op |-> "none", caller |-> "c1", sid |-> "s1", error_type |-> "",
     escalate |-> FALSE, out |-> "", count_before |-> 0]

InitEscalation ==
    /\ db = EnquiryOpened
    /\ last = NoEscalationStep
    /\ proc = [p \in Callers |-> IdleProc]

\* fallback_system.py lines 72-74: should_escalate, and the escalation
\* response when it is true
FallbackChecks(p, sid) ==
    \E error_type \in ErrorTypes :
      /\ proc[p].pc = "idle"
      /\ With(should_escalate(db, sid, error_type, NoFaults), LAMBDA esc :
           /\ db' = esc.c
           /\ proc' = [proc EXCEPT ![p] =
                         [pc |-> IF esc.escalate THEN "idle" ELSE "increment",
                          sid |-> sid, ret |-> <<error_type>>]]
           /\ last' = [NoEscalationStep EXCEPT
                         !.op = "should_escalate", !.caller = p, !.sid = sid,
                         !.error_type = error_type, !.escalate = esc.escalate,
                         !.out = IF esc.escalate THEN "fallback:escalation" ELSE "",
                         !.count_before = ErrorCountOf(db, sid)])

\* lines 76-87: the response is chosen and error_count raised
FallbackIncrements(p) ==
    /\ proc[p].pc = "increment"
    /\ With(increment_error_count(db, proc[p].sid), LAMBDA inc :
         /\ db' = inc.c
         /\ last' = [NoEscalationStep EXCEPT
                       !.op = "increment_error_count", !.caller = p,
                       !.sid = proc[p].sid, !.error_type = proc[p].ret[1],
                       !.out = FallbackPool(proc[p].ret[1]),
                       !.count_before = ErrorCountOf(db, proc[p].sid)])
    /\ proc' = [proc EXCEPT ![p] = IdleProc]

NextEscalation ==
    \E p \in Callers :
       \/ \E sid \in Sessions : FallbackChecks(p, sid)
       \/ FallbackIncrements(p)

SpecEscalation == InitEscalation /\ [][NextEscalation]_vars

----------------------------------------------------------------------------
(* should_continue_with_current_agent on its own, the three analyses of    *)
(* the message each getting its own reply from the model                    *)

NoRoutingAnalysis ==
    [op |-> "none", sid |-> "s1", llm1 |-> NoFlowCall.llm, llm3 |-> NoFlowCall.llm,
     decision |-> "", confidence |-> 0, should_continue |-> FALSE, turns |-> 0]

\* replies to the analysis of get_continuation_reason (lines 231-242), of
\* which only the reason, which no decision depends on, is used
ReasonReplies ==
    {[kind |-> "json", decision |-> "clarify", confidence |-> 50],
     [kind |-> "error", decision |-> "", confidence |-> 0]}

InitFlowCalls ==
    /\ \/ \E primary_product \in {"None", "UNKNOWN", "TRAVEL", "MAID"} :
             db = SessionInContext(primary_product)
       \/ db = SessionWithoutTurn("s1")
    /\ last = NoRoutingAnalysis
    /\ proc = [p \in Callers |-> IdleProc]

\* one call of should_continue_with_current_agent (lines 247-281)
RoutingAnalysis(sid) ==
    \E llm1 \in FlowReplies, llm2 \in ReasonReplies, llm3 \in FlowReplies :
      /\ last.turns < MaxAgentCalls
      /\ With(should_continue_with_current_agent(
                  db, sid, get_chat_history(db, sid), llm1, llm2, llm3), LAMBDA r :
           /\ db' = r.c
           /\ last' = [op |-> "should_continue_with_current_agent", sid |-> sid,
                       llm1 |-> llm1, llm3 |-> llm3, decision |-> r.decision,
                       confidence |-> r.confidence,
                       should_continue |-> r.should_continue,
                       turns |-> last.turns + 1])
      /\ UNCHANGED proc

NextFlowCalls == \E sid \in Sessions : RoutingAnalysis(sid)

SpecFlowCalls == InitFlowCalls /\ [][NextFlowCalls]_vars

----------------------------------------------------------------------------
(* Claims about the session store *)

\* the fields of a document other than last_active
DataFields == {"chat_history", "stage", "message_count", "collected_info",
               "conversation_context"}

SameData(d1, d2) == \A f \in DataFields : d1[f] = d2[f]

\* C6: for any interleaving of concurrent get_session calls on a never-seen
\* id there is never more than one document for the id, a call that returns
\* hands back the document stored at that moment, and a get_session step
\* leaves every field but last_active of an existing document as it was.
C6_UpsertRace ==
    /\ [](\A sid \in Sessions : Len(db[sid]) <= 1)
    /\ [][\A p \in Callers :
            proc'[p] # proc[p] =>
              LET sid == proc'[p].sid
              IN  /\ (proc'[p].pc = "idle" =>
                        /\ Len(db'[sid]) = 1
                        /\ proc'[p].ret = db'[sid])
                  /\ (Found(db, sid) =>
                        /\ Len(db'[sid]) = Len(db[sid])
                        /\ SameData(db'[sid][1], db[sid][1]))]_vars

\* C6 witness: both callers missed in the query phase, one inserted, the other
\* hit the duplicate key, retried, and both have returned; in between another
\* operation wrote the document.
C6_Witness ==
    /\ last.op = "get_session"
    /\ \A p \in Callers : proc[p].pc = "idle" /\ proc[p].ret # <<>>
    /\ \E p \in Callers : proc[p].ret[1].message_count = 0
    /\ \E p \in Callers : proc[p].ret[1].message_count > 0
    /\ db["s1"][1].stage = "travel_inquiry"

\* C7: get_session on a never-seen id creates a document with stage initial,
\* empty collected_info, empty chat_history and message_count 0; get_session
\* on an existing session changes nothing but last_active and returns the
\* stored document.
C7_GetSessionFrame ==
    last.op = "get_session" =>
        LET doc == db[last.sid][1]
        IN  /\ Len(db[last.sid]) = 1
            /\ last.session = <<doc>>
            /\ (last.before = <<>> =>
                    /\ doc.stage = "initial"
                    /\ doc.collected_info = EmptyMap
                    /\ doc.chat_history = <<>>
                    /\ doc.message_count = 0)
            /\ (last.before # <<>> => SameData(doc, last.before[1]))

\* C7 witness: a second get_session after update_session wrote the session
C7_Witness ==
    /\ last.op = "get_session"
    /\ last.before # <<>>
    /\ last.before[1].message_count = 2
    /\ Len(last.session[1].chat_history) = 4

\* C8: after n update_session calls on an existing session get_chat_history
\* returns exactly min(2n, 20) entries, the most recent ones of the stored
\* history in their order.
C8_HistoryWindow ==
    (last.op = "get_chat_history" /\ Found(db, last.sid)) =>
        LET full == db[last.sid][1].chat_history
            got == last.history
            n == last.updates
        IN  /\ Len(got) = Min(2 * n, 2 * MAX_CONTEXT_MESSAGES)
            /\ \A i \in 1..Len(got) : got[i] = full[Len(full) - Len(got) + i]
            /\ \A i \in 1..Len(got) :
                 got[i].role = IF i % 2 = 1 THEN "user" ELSE "assistant"

\* C8 witness: get_chat_history after 15 update_session calls
C8_Witness ==
    /\ last.op = "get_chat_history"
    /\ last.updates = 15
    /\ Len(last.history) = 20
    /\ Len(db[last.sid][1].chat_history) = 30

\* C9 as stated: after every update_session call the stored chat_history
\* holds at most 2 x MAX_CONTEXT_MESSAGES entries.
C9_StoredHistoryTrimmed ==
    last.op = "update_session" =>
        \A sid \in Sessions :
            Found(db, sid) => Len(db[sid][1].chat_history) <= 2 * MAX_CONTEXT_MESSAGES

\* C9 amended: update_session does not trim; after n update_session calls on
\* an existing session the stored chat_history holds all 2n entries, the last
\* two being the pair just written, and message_count is n.
C9_StoredHistoryGrows ==
    (last.op = "update_session" /\ Found(db, last.sid)) =>
        LET doc == db[last.sid][1]
        IN  /\ Len(doc.chat_history) = 2 * last.updates
            /\ doc.message_count = last.updates
            /\ last.before # <<>>
            /\ doc.chat_history = last.before[1].chat_history \o
                  <<[role |-> "user", content |-> last.msg],
                    [role |-> "assistant", content |-> last.reply]>>

\* C9 witness: the eleventh update_session leaves 22 entries stored
C9_Witness ==
    /\ last.op = "update_session"
    /\ last.updates = 11
    /\ Len(db[last.sid][1].chat_history) = 22

----------------------------------------------------------------------------
(* Claims about the conversation *)

\* message_count of the session before the last turn
CountBefore == IF last.before = <<>> THEN 0 ELSE last.before[1].message_count

\* C2 as stated: every orchestrate_chat call that returns reply r for message
\* m leaves (user m, assistant r) as the last two entries of the session's
\* chat_history and message_count one higher, whatever the session id and
\* also when input validation rejected the message.
C2_TurnPersistsPair ==
    (last.op = "orchestrate_chat" /\ ~last.raised) =>
        /\ Found(db, last.sid)
        /\ LET doc == db[last.sid][1]
               n == Len(doc.chat_history)
           IN  /\ n >= 2
               /\ doc.chat_history[n - 1] = [role |-> "user", content |-> last.msg]
               /\ doc.chat_history[n] = [role |-> "assistant", content |-> last.reply]
               /\ doc.message_count = CountBefore + 1

\* C2, the failing case: the first message of a never-seen session is
\* rejected by validation, the reply is returned and no document exists
C2_Witness ==
    /\ last.op = "orchestrate_chat"
    /\ last.before = <<>>
    /\ last.reply = "validation:too_short"
    /\ ~Found(db, last.sid)

PersistedStages == {"initial", "travel_inquiry", "awaiting_product_for_rag",
                    "recommendation", "payment", "live_agent"}

\* C4: after any sequence of turns the persisted stage is one of initial,
\* travel_inquiry, awaiting_product_for_rag, recommendation, payment and
\* live_agent: never completed, cancelled or error, and never maid_inquiry.
C4_PersistedStage ==
    \A sid \in Sessions : Found(db, sid) => db[sid][1].stage \in PersistedStages

\* C4 witness: the payment agent has answered with stage completed and the
\* persisted stage is still payment
C4_Witness ==
    /\ last.op = "orchestrate_chat"
    /\ last.reply = "payment:completed"
    /\ Found(db, last.sid)
    /\ db[last.sid][1].stage = "payment"

\* the fields of collected_info, as pairs of info type and field name
CollectedFields(docs) ==
    IF docs = <<>> THEN {}
    ELSE LET collected_info == docs[1].collected_info
         IN  {tk \in {"travel_info", "payment_info"} \X
                     {"destination", "travel_duration_days",
                      "pre_existing_medical_conditions", "budget_preference",
                      "name", "email"} :
                 /\ tk[1] \in DOMAIN collected_info
                 /\ tk[2] \in DOMAIN collected_info[tk[1]]}

\* C10: a turn keeps every field that was present in collected_info, unless
\* it is the product-switch reset of the recommendation stage; that reset
\* leaves none of the earlier fields but those the same turn collects anew.
C10_CollectedFieldsKept ==
    last.op = "orchestrate_chat" =>
        IF last.switch
        THEN \A tk \in CollectedFields(db[last.sid]) :
                tk[1] = "travel_info" /\ last.reply \in MergedReplies
        ELSE CollectedFields(last.before) \subseteq CollectedFields(db[last.sid])

\* C10 witness: a turn that found travel fields collected, was no reset and
\* added the payer's name
C10_Witness ==
    /\ last.op = "orchestrate_chat"
    /\ ~last.switch
    /\ <<"travel_info", "destination">> \in CollectedFields(last.before)
    /\ <<"payment_info", "name">> \notin CollectedFields(last.before)
    /\ <<"payment_info", "name">> \in CollectedFields(db[last.sid])
    /\ <<"travel_info", "destination">> \in CollectedFields(db[last.sid])

\* C1: on a never-seen session, once the first message was classified as
\* TRAVEL / product_inquiry and the next four messages made the extraction
\* yield the destination, a duration within 1..364, a yes/no medical answer
\* and the budget preference budget-friendly, the stage is recommendation,
\* travel_info holds the four required fields and recommended_plan is Silver.
C1_EnquiryEndsWithSilver ==
    last.scenario = 5 =>
        /\ Found(db, last.sid)
        /\ LET doc == db[last.sid][1]
           IN  /\ doc.stage = "recommendation"
               /\ "travel_info" \in DOMAIN doc.collected_info
               /\ DOMAIN doc.collected_info["travel_info"] =
                     {required_info[i] : i \in 1..4}
               /\ doc.conversation_context.recommended_plan = "Silver"

\* C1 witness: the fifth message of the enquiry has been answered
C1_Witness ==
    /\ last.scenario = 5
    /\ last.turns = 5
    /\ db[last.sid][1].message_count = 5
    /\ db[last.sid][1].collected_info["travel_info"]["budget_preference"] = "budget-friendly"

\* the pair of the last turn is what the stored history ends with
PairAppended ==
    /\ Found(db, last.sid)
    /\ LET doc == db[last.sid][1]
           n == Len(doc.chat_history)
       IN  /\ n >= 2
           /\ doc.chat_history[n - 1] = [role |-> "user", content |-> last.msg]
           /\ doc.chat_history[n] = [role |-> "assistant", content |-> last.reply]
           /\ doc.message_count = CountBefore + 1

\* C3 as stated: orchestrate_chat never raises; when a store operation of the
\* turn fails it returns a fallback reply, and the message and that reply are
\* appended to the history unless the history write of the handler fails too.
C3_FailureAnsweredAndRecorded ==
    last.op = "orchestrate_chat" =>
        /\ ~last.raised
        /\ last.fault.at # "none" =>
              /\ last.reply \in {"fallback:general_error", "fallback:escalation",
                                 "fallback:here_to_help"}
              /\ "update_session" \notin last.fault.handler => PairAppended

\* C3, the failing case: on a never-seen session the first lookup and the
\* lookup of should_escalate raise, the history write goes through and finds
\* no document to append to
C3_Witness ==
    /\ last.op = "orchestrate_chat"
    /\ last.before = <<>>
    /\ last.fault.at = "get_chat_history"
    /\ last.fault.handler = {"should_escalate"}
    /\ last.reply = "fallback:here_to_help"
    /\ ~Found(db, last.sid)

\* the number of callers for which P holds
CountCallers(P(_)) == Cardinality({p \in Callers : P(p)})

\* whether chat_history h holds the pair of caller p
HoldsPair(h, p) ==
    \E i \in 1..(Len(h) - 1) :
        /\ h[i] = [role |-> "user", content |-> proc[p].msg]
        /\ h[i + 1] = [role |-> "assistant", content |-> proc[p].reply]

\* C5: when two turns on the same session ran concurrently and both are
\* complete, the session holds both turns' history pairs, every increment
\* of the error count, and every travel_info field either turn stored.
C5_NoUpdateLost ==
    (\A p \in Callers : proc[p].pc = "done") =>
        /\ Len(db["s1"][1].chat_history) = Len(EnquiryOpened["s1"][1].chat_history) + 4
        /\ \A p \in Callers : HoldsPair(db["s1"][1].chat_history, p)
        /\ db["s1"][1].message_count = EnquiryOpened["s1"][1].message_count + 2
        /\ db["s1"][1].conversation_context.error_count
              = CountCallers(LAMBDA p : proc[p].incremented)
        /\ \A p \in Callers :
              proc[p].stored \subseteq DOMAIN TravelInfoOf(db["s1"][1])

\* C5, the failing case: both turns are complete and each stored a field the
\* other did not
C5_Witness ==
    /\ \A p \in Callers : proc[p].pc = "done"
    /\ proc["c1"].stored # {} /\ proc["c2"].stored # {}
    /\ proc["c1"].stored # proc["c2"].stored

\* C5, history and error count alone: both pairs and every increment are
\* in the session once both turns are complete
C5_PairsAndIncrementsKept ==
    (\A p \in Callers : proc[p].pc = "done") =>
        /\ Len(db["s1"][1].chat_history) = Len(EnquiryOpened["s1"][1].chat_history) + 4
        /\ \A p \in Callers : HoldsPair(db["s1"][1].chat_history, p)
        /\ db["s1"][1].message_count = EnquiryOpened["s1"][1].message_count + 2
        /\ db["s1"][1].conversation_context.error_count
              = CountCallers(LAMBDA p : proc[p].incremented)


----------------------------------------------------------------------------
(* Claims about the agents *)

\* whether a value of extraction x is outside what TravelInfo accepts
OutsideTravelInfo(x) ==
    \/ IsSome(x.travel_duration_days)
         /\ x.travel_duration_days[1] \notin 1..364
    \/ IsSome(x.pre_existing_medical_conditions)
         /\ x.pre_existing_medical_conditions[1] \notin {"yes", "no", "Yes", "No"}
    \/ IsSome(x.budget_preference)
         /\ x.budget_preference[1] \notin {"budget-friendly", "comprehensive",
                                           "Budget-Friendly", "Comprehensive"}

\* C11: an extraction with a duration outside 1..364, a medical answer other
\* than yes/no or a budget other than budget-friendly/comprehensive is
\* answered with the provide-it-again prompt and leaves travel_info and the
\* stage as they were; a duration of 364 in an acceptable extraction is
\* stored as 364.
C11_InvalidExtractionRejected ==
    last.op = "run_travel_agent" =>
        /\ OutsideTravelInfo(last.x) =>
              /\ last.reply = "travel:provide_again"
              /\ db[last.sid][1].collected_info = last.before[1].collected_info
              /\ db[last.sid][1].stage = last.before[1].stage
        /\ (~OutsideTravelInfo(last.x) /\ last.x.travel_duration_days = Some(364)) =>
              /\ last.reply # "travel:provide_again"
              /\ "travel_duration_days" \in DOMAIN TravelInfoOf(db[last.sid][1])
              /\ TravelInfoOf(db[last.sid][1])["travel_duration_days"] = 364

\* C11 witness: a duration of 364 was stored, and the next call, with a
\* duration of 400 beside a destination, was answered with the prompt
C11_Witness ==
    /\ last.op = "run_travel_agent"
    /\ last.x.travel_duration_days = Some(400)
    /\ last.x.destination = Some("Japan")
    /\ last.reply = "travel:provide_again"
    /\ "travel_duration_days" \in DOMAIN TravelInfoOf(last.before[1])
    /\ TravelInfoOf(last.before[1])["travel_duration_days"] = 364
    /\ TravelInfoOf(db[last.sid][1]) = TravelInfoOf(last.before[1])


\* the plan the budget preference of travel_info calls for
PlanCalledFor(travel_info) ==
    IF "budget_preference" \notin DOMAIN travel_info THEN "Silver"
    ELSE IF travel_info["budget_preference"] \in {"budget-friendly", "Budget-Friendly"}
    THEN "Silver"
    ELSE IF travel_info["budget_preference"] \in {"comprehensive", "Comprehensive"}
    THEN "Gold"
    ELSE "Silver"

\* C12: for a session that has travel_info the plan get_recommendation
\* returns follows budget_preference alone: Silver for budget-friendly, Gold
\* for comprehensive, Silver for an absent or unrecognised value, whatever
\* the model replied and also when its call failed.
C12_PlanFollowsBudget ==
    last.op = "get_recommendation" =>
        last.plan = PlanCalledFor(TravelInfoOf(last.before[1]))

\* C12 witness: the budget preference is comprehensive, the model replied
\* with the plan Silver, and the plan returned is Gold
C12_Witness ==
    /\ last.op = "get_recommendation"
    /\ last.llm.llm_ok /\ last.llm.llm_plan = "Silver"
    /\ BudgetOf(TravelInfoOf(last.before[1])) = "comprehensive"
    /\ last.plan = "Gold"


\* C13: should_continue_conversation answers by the confidence of the
\* analysis: at 0.8 or more, true exactly when the decision is "continue";
\* from 0.5 up to 0.8, true exactly when the decision is "continue" or
\* "clarify"; below 0.5, true exactly when the session has a primary_product
\* other than UNKNOWN, whatever the decision
C13_ContinueByConfidence ==
    last.op = "should_continue_conversation" =>
       /\ last.confidence >= 80 =>
             (last.should_continue <=> last.decision = "continue")
       /\ (last.confidence >= 50 /\ last.confidence < 80) =>
             (last.should_continue <=> last.decision \in {"continue", "clarify"})
       /\ last.confidence < 50 =>
             (last.should_continue <=>
                 last.before[1].conversation_context.primary_product
                     \notin {"None", "UNKNOWN"})
C13_Witness ==
    /\ last.op = "should_continue_conversation"
    /\ last.confidence = 79
    /\ last.decision = "clarify"
    /\ last.should_continue


\* C14: whenever the flow analysis fails (the model call raises, its reply is
\* not the JSON decision, or a session lookup raises), the answer of
\* should_continue_with_current_agent is to continue exactly when the session
\* has a primary_product other than UNKNOWN
C14_FailureFollowsContext ==
    (/\ last.op = "should_continue_with_current_agent"
     /\ \/ last.before[1].chat_history # <<>> /\ last.llm.kind \in {"error", "unparsable"}
        \/ last.down # {})
    => (last.should_continue <=>
           last.before[1].conversation_context.primary_product
               \notin {"None", "UNKNOWN"})
\* an unparsable reply for a session whose product is UNKNOWN, answered by
\* continuing
C14_Witness ==
    /\ last.op = "should_continue_with_current_agent"
    /\ last.before[1].chat_history # <<>>
    /\ last.llm.kind = "unparsable"
    /\ last.down = {}
    /\ last.before[1].conversation_context.primary_product = "UNKNOWN"
    /\ last.should_continue
\* the part of C14 that the code keeps: when the model call raises and every
\* lookup succeeds, the answer follows the product context
C14_ModelErrorFollowsContext ==
    (/\ last.op = "should_continue_with_current_agent"
     /\ last.before[1].chat_history # <<>>
     /\ last.llm.kind = "error"
     /\ last.down = {})
    => (last.should_continue <=>
           last.before[1].conversation_context.primary_product
               \notin {"None", "UNKNOWN"})


\* C15: should_escalate, having read the session, answers true exactly when
\* error_count is at least 5, or error_type is "agent_error" and error_count
\* is at least 3, and false in every other case
C15_EscalateByCount ==
    (last.op = "should_escalate" /\ last.faults = {}) =>
       (last.escalate <=>
           \/ last.count_before >= 5
           \/ (last.error_type = "agent_error" /\ last.count_before >= 3))
C15_Witness ==
    /\ last.op = "should_escalate"
    /\ last.faults = {}
    /\ last.error_type = "agent_error"
    /\ last.count_before = 3
    /\ last.escalate
\* when the session cannot be read, should_escalate answers false (lines
\* 113-115)
C15_UnreadSessionNotEscalated ==
    (last.op = "should_escalate" /\ last.faults # {}) => ~last.escalate

\* C16: once error_count has reached 5, every fallback reply made for the
\* session, by get_fallback_response or by handle_agent_failure, is the
\* escalation message
C16_EscalatedForGood ==
    (/\ last.op \in {"get_fallback_response", "handle_agent_failure"}
     /\ last.count_before >= 5)
    => last.out = "fallback:escalation"
\* a retry prompt of handle_agent_failure at error_count 5
C16_Witness ==
    /\ last.op = "handle_agent_failure"
    /\ last.count_before = 5
    /\ last.out = "agent_failure:travel_agent"
\* the part of C16 that the code keeps: get_fallback_response escalates from
\* error_count 5 on whenever should_escalate can read the session
C16_FallbackResponseEscalates ==
    (/\ last.op = "get_fallback_response"
     /\ "should_escalate" \notin last.faults
     /\ last.count_before >= 5)
    => last.out = "fallback:escalation"


\* C17: when an agent raises inside process_normal_intent, the reply is the
\* apology of that agent and the session's error_count is one higher than
\* before
C17_AgentFailureCounted ==
    (last.op = "process_normal_intent" /\ last.agent_raised) =>
       /\ last.out \in {"agent_failure:travel_agent", "agent_failure:payment_agent"}
       /\ last.count_after = last.count_before + 1
\* a raising agent answered with its apology, error_count left as it was
C17_Witness ==
    /\ last.op = "process_normal_intent"
    /\ last.agent_raised
    /\ last.out = "agent_failure:travel_agent"
    /\ last.count_after = last.count_before
\* the part of C17 that the code keeps: the reply is the apology of the agent
\* that raised
C17_AgentFailureApologised ==
    (last.op = "process_normal_intent" /\ last.agent_raised) =>
       last.out = (IF last.intent_result.intent = "payment_inquiry"
                   THEN "agent_failure:payment_agent"
                   ELSE "agent_failure:travel_agent")


----------------------------------------------------------------------------
(* Claims about input validation *)

\* C18: every message longer than 1000 characters is rejected with the issue
\* type too_long, whatever it consists of
C18_LongMessageTooLong ==
    (last.op = "validate_user_input" /\ MsgLen(last.text) > 1000) =>
       last.issue = "too_long"
\* 1001 punctuation marks rejected as only_symbols
C18_Witness ==
    /\ last.op = "validate_user_input"
    /\ last.text = <<Run("!", 1000), Run("?", 1)>>
    /\ last.issue = "only_symbols"
\* what the code does keep: a message longer than 1000 characters is never
\* accepted
C18_LongMessageRejected ==
    (last.op = "validate_user_input" /\ MsgLen(last.text) > 1000) =>
       last.issue # "valid"


----------------------------------------------------------------------------
(* Claims about the live-agent endpoints *)

\* C19: a /start for a session id that has a registered manager answers 409
\* and leaves that manager registered and every manager as it was; a /start
\* for an id without one answers with a new manager registered under the id;
\* in neither case is a registered manager replaced
C19_OneManagerPerSession ==
    last.op = "start" =>
       /\ last.others_untouched
       /\ IF last.manager_before # 0
          THEN /\ last.status = 409
               /\ last.manager_after = last.manager_before
          ELSE /\ last.status = 200
               /\ last.manager_after # 0
               /\ \A chat \in ChatSessions \ {last.chat} :
                     db.active_engagements[chat] # last.manager_after
\* a second /start for a session whose engagement is connected
C19_Witness ==
    /\ last.op = "start"
    /\ last.status = 409
    /\ db.managers[last.manager_before].ws_connected
    /\ db.managers[last.manager_before].is_agent_connected

\* C20: a customer message is posted to the platform only for an engagement
\* that was delivered the agent-connected frame (send_msg of type "2");
\* before that /message answers 400, or 404 when no engagement is registered
\* for the session, and posts nothing
C20_PostedAfterAgentConnected ==
    /\ \A mid \in proc.posted : db.managers[mid].agent_event
    /\ last.op = "message" =>
          IF last.manager_before = 0
          THEN last.status = 404 /\ ~last.posted
          ELSE ~db.managers[last.manager_before].agent_event
                  => (last.status = 400 /\ ~last.posted)
\* a message posted after the agent connected
C20_Witness ==
    /\ last.op = "message"
    /\ last.status = 200
    /\ last.posted
    /\ last.manager_before \in proc.posted


\* C21: whatever the interleaving of /start and /end requests on one session
\* id, every request is answered with success, 409 or 404, none with an
\* unhandled error, and after a successful /end the id is not registered
C21_StartEndAlwaysAnswered ==
    last.op \in {"start", "end"} =>
       /\ last.status \in {0, 200, 404, 409}
       /\ (last.op = "end" /\ last.status = 200) => last.manager_after = 0
\* the second of two overlapping /end requests failing on the deleted key
C21_Witness ==
    /\ last.op = "end"
    /\ last.status = 500
    /\ last.manager_before = 0
\* the part of C21 that the code keeps: a /end that is answered with success
\* leaves the id unregistered, and /start is answered with success or 409
C21_SuccessfulEndUnregisters ==
    /\ (last.op = "end" /\ last.status = 200) => last.manager_after = 0
    /\ last.op = "start" => last.status \in {200, 409}


\* C22: once chat_ended was delivered for an engagement, the customer has
\* been sent the closing notice and the engagement is closed and removed, so
\* that a later /message for the session answers 404 and a later /start
\* succeeds
C22_EndedEngagementRemoved ==
    /\ \A chat \in ChatSessions :
          db.active_engagements[chat] \notin proc.notified
    /\ (last.op = "message" /\ last.ended) => last.status = 404
    /\ (last.op = "start" /\ last.ended) => last.status = 200
\* a /start refused with 409 after chat_ended was delivered
C22_Witness ==
    /\ last.op = "start"
    /\ last.ended
    /\ last.status = 409
    /\ last.manager_before \in proc.notified


----------------------------------------------------------------------------
(* Claims about the stages of the conversation *)

\* C23 (as amended): in stage recommendation, when the primary classifier
\* returns a product that is neither UNKNOWN nor the session's
\* primary_product, nothing collected before the turn survives it,
\* primary_product is the new product and the reply is the one
\* process_normal_intent gives for the message; otherwise collected_info
\* is as before the turn, except for the payment_info the payment agent
\* writes when the message is a purchase
C23_SwitchRestartsElseOnlyPaymentInfo ==
    StageTurnIn("recommendation") =>
       IF SwitchesProduct
       THEN /\ After.conversation_context.primary_product = Classified.product
            /\ "payment_info" \notin DOMAIN After.collected_info
            /\ TravelInfoOf(After) \in {EmptyMap, NonNullFields(last.in.x)}
            /\ last.reply = process_normal_intent(Emptied, last.sid, Classified,
                                                  last.msg, last.in).out
       ELSE /\ TravelInfoOf(After) = TravelInfoOf(Before)
            /\ DOMAIN After.collected_info \ {"payment_info"}
                  = DOMAIN Before.collected_info \ {"payment_info"}
            /\ After.collected_info # Before.collected_info
                  => /\ last.in.rintent.intent = "purchase"
                     /\ last.in.rintent.confidence > 60
\* a switch of product that emptied a collected_info holding the enquiry
C23_Witness ==
    /\ StageTurnIn("recommendation")
    /\ SwitchesProduct
    /\ "travel_info" \in DOMAIN Before.collected_info
    /\ After.collected_info = EmptyMap
    /\ After.conversation_context.primary_product = "MAID"
\* C23 as stated: on a switch of product collected_info is emptied,
\* primary_product is the new product and the message goes through
\* process_normal_intent; without one the turn leaves collected_info
\* unchanged
C23_UnchangedWithoutSwitch ==
    StageTurnIn("recommendation") =>
       IF SwitchesProduct
       THEN /\ After.conversation_context.primary_product = Classified.product
            /\ TravelInfoOf(After) \in {EmptyMap, NonNullFields(last.in.x)}
            /\ last.reply = process_normal_intent(Emptied, last.sid, Classified,
                                                  last.msg, last.in).out
       ELSE After.collected_info = Before.collected_info


\* C24: a valid message to a session in stage travel_inquiry leaves the
\* stage at travel_inquiry or recommendation, and at recommendation exactly
\* when all four travel fields are stored after the turn
C24_RecommendationIffAllFields ==
    StageTurnIn("travel_inquiry") =>
       /\ After.stage \in {"travel_inquiry", "recommendation"}
       /\ After.stage = "recommendation"
             <=> missing_info(TravelInfoOf(After)) = <<>>
\* a turn that ends in travel_inquiry with all four fields stored
C24_Witness ==
    /\ StageTurnIn("travel_inquiry")
    /\ After.stage = "travel_inquiry"
    /\ missing_info(TravelInfoOf(After)) = <<>>
    /\ last.reply \in {"travel:rephrase", "travel:unsure", "travel:provide_again"}


\* C25: a valid message to a session in stage awaiting_product_for_rag, which
\* always holds a stashed question: when the classifier names a product the
\* reply is the answer to the stashed question, the stage becomes initial
\* and the stash is cleared; when it names none the stage and the stash are
\* as before and the reply is the product prompt
C25_PendingQuestionAnswered ==
    StageTurnIn("awaiting_product_for_rag") =>
       /\ Before.conversation_context.pending_rag_question # "None"
       /\ IF Classified.product # "UNKNOWN"
          THEN /\ last.reply =
                     RagResponse(Before.conversation_context.pending_rag_question,
                                 last.in.rag)
               /\ After.stage = "initial"
               /\ After.conversation_context.pending_rag_question = "None"
          ELSE /\ last.reply = "rag:which_insurance_again"
               /\ After.stage = "awaiting_product_for_rag"
               /\ After.conversation_context.pending_rag_question
                     = Before.conversation_context.pending_rag_question
\* the stashed question answered in a turn whose message is another text
C25_Witness ==
    /\ StageTurnIn("awaiting_product_for_rag")
    /\ Classified.product = "TRAVEL"
    /\ Before.conversation_context.pending_rag_question = "Japan"
    /\ last.msg = "10"
    /\ last.reply = "rag:answer:Japan"
    /\ After.stage = "initial"


\* C26: at the end of a turn that passed input validation and classified
\* its message, whatever the stage, last_intent is the intent determined
\* for the message and
\* primary_product the product determined for it (the classifier's, or the
\* product of the context that a continued conversation keeps)
C26_ContextHoldsClassification ==
    (/\ last.op = "orchestrate_chat"
     /\ validate_user_input(last.msg) = "valid"
     /\ ClassifierConsulted)
       => /\ After.conversation_context.last_intent = Classified.intent
          /\ \/ After.conversation_context.primary_product = Classified.product
             \/ /\ last.before # <<>>
                /\ After.conversation_context.primary_product
                      = Before.conversation_context.primary_product
\* a product named in stage awaiting_product_for_rag that the context does
\* not hold after the turn
C26_Witness ==
    /\ StageTurnIn("awaiting_product_for_rag")
    /\ Classified.product = "MAID"
    /\ Classified.intent = "product_inquiry"
    /\ After.conversation_context.primary_product = "UNKNOWN"
    /\ After.conversation_context.last_intent = "informational"


\* C27: in stage recommendation with no switch of product, a message
\* classified plan_comparison with confidence above 0.6 is answered with the
\* comparison table followed by the purchase prompt, and the stage stays
\* recommendation
C27_ComparisonTableReturned ==
    (/\ StageTurnIn("recommendation")
     /\ ~SwitchesProduct
     /\ last.in.rintent.intent = "plan_comparison"
     /\ last.in.rintent.confidence > 60)
       => /\ last.reply = "comparison:table+purchase_prompt"
          /\ After.stage = "recommendation"
\* a plan comparison answered with the technical-issue text
C27_Witness ==
    /\ StageTurnIn("recommendation")
    /\ ~SwitchesProduct
    /\ last.in.rintent.intent = "plan_comparison"
    /\ last.in.rintent.confidence > 60
    /\ last.reply = "recommendation:technical_issue"
    /\ After.stage = "recommendation"


\* C28: process_normal_intent, the agents answering: with intent
\* payment_inquiry the stage is payment and the reply one of the payment
\* agent's; with another intent and product TRAVEL the travel agent runs on
\* the session set to travel_inquiry and its reply is returned; otherwise
\* the reply is the product_not_available fallback and the stage unchanged
C28_DispatchByIntentAndProduct ==
    (last.op = "process_normal_intent" /\ last.before # <<>>) =>
       LET c0 == [s \in Sessions |-> last.before]
           intent_result == last.intent_result
       IN  IF intent_result.intent = "payment_inquiry"
           THEN /\ db[last.sid][1].stage = "payment"
                /\ \E pay \in PaymentStages :
                      last.out = run_payment_agent(set_stage(c0, last.sid, "payment"),
                                                   last.sid, last.msg, pay).output
           ELSE IF intent_result.product = "TRAVEL"
           THEN ~last.agent_raised =>
                   With(run_travel_agent(set_stage(c0, last.sid, "travel_inquiry"),
                                         last.sid, last.x, QuietTurn.rec), LAMBDA r :
                      /\ last.out = r.output
                      /\ db[last.sid][1].stage = r.stage)
           ELSE /\ last.out = get_fallback_response(c0, last.sid,
                                  "product_not_available", NoFaults).out
                /\ db[last.sid][1].stage = last.before[1].stage
\* a payment enquiry answered with the apology for a failed agent
C28_Witness ==
    /\ last.op = "process_normal_intent"
    /\ last.intent_result.intent = "payment_inquiry"
    /\ last.intent_result.product = "TRAVEL"
    /\ db[last.sid][1].stage = "payment"
    /\ last.out = "agent_failure:payment_agent"
\* the rest of C28: what process_normal_intent does for the intents other
\* than payment_inquiry
C28_OtherIntentsDispatched ==
    (/\ last.op = "process_normal_intent"
     /\ last.before # <<>>
     /\ last.intent_result.intent # "payment_inquiry")
       => C28_DispatchByIntentAndProduct


\* C29: a turn in stage payment in which the payment agent returns the final
\* message of process_payment, name and e-mail being collected, ends with
\* the stage reset to initial and the closing note appended to the reply
C29_CompletedPaymentResetsStage ==
    (/\ StageTurnIn("payment")
     /\ {"name", "email"} \subseteq DOMAIN PaymentInfoOf(After)
     /\ last.reply \in {"payment:completed", "payment:completed+closing_note"})
       => /\ After.stage = "initial"
          /\ last.reply = "payment:completed+closing_note"
\* a completed payment after which the session is still in stage payment
C29_Witness ==
    /\ StageTurnIn("payment")
    /\ {"name", "email"} \subseteq DOMAIN PaymentInfoOf(After)
    /\ last.in.pay.stage = "collecting_details"
    /\ last.reply = "payment:completed"
    /\ After.stage = "payment"


\* C30: a valid message to a session in stage payment that is about a
\* product other than the session's leaves the payment stage in that turn:
\* nothing collected for the payment survives, and the message is routed
\* again, so that unless it is itself a payment enquiry the stage is no
\* longer payment and the reply is not one of the payment agent's
C30_OtherProductLeavesPayment ==
    (/\ StageTurnIn("payment")
     /\ Classified.product
           \notin {"UNKNOWN", Before.conversation_context.primary_product})
       => /\ "payment_info" \notin DOMAIN After.collected_info
          /\ Classified.intent # "payment_inquiry"
                => /\ After.stage # "payment"
                   /\ \A pay \in PaymentStages :
                         last.reply # run_payment_agent(
                                         [s \in Sessions |-> last.before],
                                         last.sid, last.msg, pay).output
\* a message about another product answered by the payment agent, the
\* payment details and the stage kept
C30_Witness ==
    /\ StageTurnIn("payment")
    /\ Before.conversation_context.primary_product = "TRAVEL"
    /\ Classified.product = "MAID"
    /\ Classified.intent = "product_inquiry"
    /\ "payment_info" \in DOMAIN Before.collected_info
    /\ After.collected_info = Before.collected_info
    /\ After.stage = "payment"
    /\ last.reply = "payment:confirm_purchase"


----------------------------------------------------------------------------
(* Claims about the payment agent *)

\* C31: when the analysis reports user_intent cancel for a session that has
\* a product, whichever of the four payment stages it classified,
\* run_payment_agent returns the cancellation acknowledgement with stage
\* cancelled and leaves payment_info as it was
C31_CancelAcknowledged ==
    (/\ last.op = "run_payment_agent"
     /\ PaymentForKnownProduct
     /\ last.pay.user_intent = "cancel"
     /\ last.pay.stage \in PaymentFlowStages)
       => /\ last.output = "payment:cancelled"
          /\ last.stage = "cancelled"
          /\ StoredPaymentInfo(db, last.sid)
                = PaymentInfoOf(last.before[1])
          /\ "payment_info" \in DOMAIN db[last.sid][1].collected_info
                <=> "payment_info" \in DOMAIN last.before[1].collected_info
\* a cancel classified collecting_details that stored the name and went on
\* asking for the e-mail address
C31_Witness ==
    /\ last.op = "run_payment_agent"
    /\ PaymentForKnownProduct
    /\ last.pay.user_intent = "cancel"
    /\ last.pay.stage = "collecting_details"
    /\ "name" \notin DOMAIN PaymentInfoOf(last.before[1])
    /\ "name" \in DOMAIN StoredPaymentInfo(db, last.sid)
    /\ last.output = "payment:ask_email"
    /\ last.stage = "collecting_details"
\* the part of C31 that holds: a cancel classified completed
C31_CancelAfterCompletion ==
    (/\ last.op = "run_payment_agent"
     /\ PaymentForKnownProduct
     /\ last.pay.user_intent = "cancel"
     /\ last.pay.stage = "completed")
       => C31_CancelAcknowledged


\* C37: run_payment_agent returns stage completed only together with the
\* payment link of process_payment, and only when the session's
\* payment_info holds a name and an e-mail address that pass validate_name
\* and validate_email
C37_CompletedOnlyWithLink ==
    (last.op = "run_payment_agent" /\ last.stage = "completed")
       => /\ last.payment_link
          /\ last.output = "payment:completed"
          /\ {"name", "email"} \subseteq DOMAIN StoredPaymentInfo(db, last.sid)
          /\ validate_name(StoredPaymentInfo(db, last.sid)["name"])
          /\ validate_email(StoredPaymentInfo(db, last.sid)["email"])
\* stage completed returned with the model's own text, no link and nothing
\* collected
C37_Witness ==
    /\ last.op = "run_payment_agent"
    /\ PaymentForKnownProduct
    /\ last.pay.stage = "completed"
    /\ last.pay.user_intent = "question"
    /\ last.stage = "completed"
    /\ ~last.payment_link
    /\ last.output = "payment:model_text"
    /\ StoredPaymentInfo(db, last.sid) = EmptyMap
\* the part of C37 that holds: the link of process_payment comes with stage
\* completed and with a valid name and e-mail address stored
C37_LinkOnlyWithDetails ==
    (last.op = "run_payment_agent" /\ last.payment_link)
       => /\ last.stage = "completed"
          /\ {"name", "email"} \subseteq DOMAIN StoredPaymentInfo(db, last.sid)
          /\ validate_name(StoredPaymentInfo(db, last.sid)["name"])
          /\ validate_email(StoredPaymentInfo(db, last.sid)["email"])

----------------------------------------------------------------------------
(* Claims about the realtime connection *)

\* C32: handling an inbound frame never raises, whatever the frame and
\* whether or not the forward to the customer fails: the frame is dropped
\* and the listener goes on to deliver the frames that follow.
C32_FrameNeverRaises ==
    last.op \in {"frame", "forward"} =>
        /\ last.outcome.outcome # "raised"
        /\ db.listener_task \in {"pending", "handling"}

\* C32: a frame whose JSON value is not an object was received; the handler
\* raised AttributeError and the listener task ended with it.
C32_Witness ==
    /\ last.op = "frame" /\ last.frame.shape.data = "array"
    /\ last.outcome = Handled("raised", "AttributeError")
    /\ db.listener_task = "failed" /\ ~db.is_connected

\* C32: text that is no JSON, an unknown event name, a chat message without
\* an event, and an event or text payload that is no JSON are dropped and
\* the listener keeps waiting for the next frame.
C32_UndecodableTextDropped ==
    (/\ last.op = "frame"
     /\ \/ last.frame.shape.text = "not_json"
        \/ last.frame.shape.name = "/presence"
        \/ last.frame.shape.event \in {"absent", "not_json"}
        \/ last.frame.shape.eventName = "agent_typing"
        \/ (last.frame.shape.type = "1"
            /\ last.frame.shape.payload \in {"not_json", "empty_ops"}))
    => last.outcome.outcome = "dropped" /\ db.listener_task = "pending"

\* the connection is established, still open, and close has not been called
StaysOpen ==
    /\ db.is_connected /\ proc.connection = "open" /\ proc.close = "idle"
    /\ db.ping_task # "None"

\* C33: after connect succeeds, on a connection that stays open and is not
\* closed the heartbeat task keeps running and a ping frame is sent: at
\* least one ping frame is sent on every connection that stays open.
C33_PingOnOpenConnection ==
    StaysOpen ~> (proc.pings > 0 \/ ~StaysOpen)

\* C33: the connection is open and close was not called, yet the heartbeat
\* task has ended with NameError without sending a ping.
C33_Witness ==
    /\ StaysOpen /\ db.ping_task = "failed" /\ proc.pings = 0
    /\ last.op = "ping"

\* C33: no ping frame is ever sent, and on an open connection the heartbeat
\* task ends in its first pass.
C33_NoPingEverSent ==
    /\ proc.pings = 0
    /\ db.ping_task # "sleeping"
    /\ (last.op = "ping" /\ StaysOpen => db.ping_task = "failed")

\* C34: after close() has returned neither background task is still
\* running: the heartbeat has stopped and the listener has exited, in every
\* interleaving of close with a ping or an inbound frame, also when the
\* connection was lost before close was called.
C34_NoTaskAfterClose ==
    proc.close = "returned" =>
        /\ db.listener_task \notin {"pending", "handling"}
        /\ db.ping_task \notin {"pending", "sleeping"}

\* C34: the acknowledgement of a push frame found the connection lost and
\* cleared is_connected; close() was called while the handler was still
\* forwarding the frame and returned at once, with the listener running.
C34_Witness ==
    /\ proc.close = "returned" /\ last.op = "close"
    /\ db.listener_task = "handling" /\ proc.handling.push
    /\ proc.connection = "lost"

\* C34: when close() finds the connection still marked connected, it
\* returns only after the listener has exited, and the heartbeat task is
\* over by then.
C34_ConnectedCloseWaits ==
    last.op = "close_returns" /\ proc.close = "returned" =>
        /\ db.listener_task = "done"
        /\ db.ping_task \in {"failed", "cancelled", "done"}

\* the managers whose close() was called by /end, the cleanup being over
EndedManagers ==
    {mid \in DOMAIN db.managers :
        /\ db.managers[mid].closed
        /\ proc.cleanups[db.managers[mid].chat] = 0
        /\ db.active_engagements[db.managers[mid].chat] # mid}

\* C40: once /end has completed for a session, the engagement it removed
\* holds no open realtime connection with its listener and heartbeat, and
\* none is opened afterwards, also when /end arrives while the background
\* initiate_engagement started by /start is still in progress.
C40_EndedEngagementDisconnected ==
    \A mid \in EndedManagers : ~db.managers[mid].ws_connected

\* C40: /end completed while initiate_engagement was between its token and
\* its realtime connection; the engagement is no longer registered, and the
\* connection it opened afterwards is open.
C40_Witness ==
    \E mid \in EndedManagers :
        /\ db.managers[mid].ws_connected
        /\ db.managers[mid].task \in {"connected", "failed"}
        /\ ~db.managers[mid].engagement_id

\* C40: an engagement whose initiate_engagement had run to its end before
\* /end was called is left without a realtime connection.
C40_EndAfterInitiationDisconnects ==
    \A mid \in EndedManagers :
        db.managers[mid].task = "done" => ~db.managers[mid].ws_connected

----------------------------------------------------------------------------
(* Claims about what a turn leaves in the session *)

\* C35: at the end of every turn in which the persisted stage is
\* travel_inquiry or recommendation, conversation_context.primary_product
\* is TRAVEL, on every routing path into the travel flow.
C35_TravelStageHasTravelProduct ==
    \A sid \in Sessions :
        (Found(db, sid)
         /\ db[sid][1].stage \in {"travel_inquiry", "recommendation"})
        => db[sid][1].conversation_context.primary_product = "TRAVEL"

\* C35: a turn of a session without a product was routed by the
\* unknown-product handler into the travel agent, and ended in stage
\* travel_inquiry with primary_product UNKNOWN.
C35_Witness ==
    /\ last.op = "orchestrate_chat" /\ last.before # <<>>
    /\ last.before[1].stage = "initial"
    /\ last.before[1].conversation_context.primary_product = "UNKNOWN"
    /\ db[last.sid][1].stage = "travel_inquiry"
    /\ db[last.sid][1].conversation_context.primary_product = "UNKNOWN"
    /\ last.reply = "travel:ask_destination"

\* C35: in the turns in which the unknown-product handler's own
\* classification names no product, a turn that ends in stage travel_inquiry
\* or recommendation ends with primary_product TRAVEL.
C35_TravelProductOnOtherPaths ==
    (/\ last.op = "orchestrate_chat" /\ Found(db, last.sid)
     /\ After.stage \in {"travel_inquiry", "recommendation"})
    => After.conversation_context.primary_product = "TRAVEL"

\* C36: at the end of every turn in which the persisted stage is
\* recommendation, collected_info.travel_info contains all four required
\* fields and conversation_context.recommended_plan is Silver or Gold.
C36_RecommendationStageComplete ==
    \A sid \in Sessions :
        (Found(db, sid) /\ db[sid][1].stage = "recommendation") =>
            /\ missing_info(TravelInfoOf(db[sid][1])) = <<>>
            /\ db[sid][1].conversation_context.recommended_plan
                   \in {"Silver", "Gold"}

\* C36: a turn of the travel enquiry stored the last missing field and
\* moved the session to stage recommendation although the model call of the
\* recommendation failed.
C36_Witness ==
    /\ StageTurnIn("travel_inquiry")
    /\ missing_info(TravelInfoOf(Before)) # <<>>
    /\ After.stage = "recommendation"
    /\ ~last.in.rec.llm_ok
    /\ After.conversation_context.recommended_plan = "Gold"

\* C36: a turn in stage recommendation that stays there keeps the four
\* fields and the plan.
C36_WitnessStaying ==
    /\ StageTurnIn("recommendation")
    /\ After.stage = "recommendation"
    /\ After.conversation_context.recommended_plan = "Silver"

\* C38: in every reachable state, also under concurrent turns of one
\* session, the session's error_count never decreases and never exceeds 5.
C38_ErrorCountMonotoneAndBounded ==
    /\ [](\A sid \in Sessions : ErrorCountOf(db, sid) <= high_error_count)
    /\ [][\A sid \in Sessions : ErrorCountOf(db', sid) >= ErrorCountOf(db, sid)]_vars

\* C38: two callers both read error_count 4 in should_escalate, and both
\* raised it: the count is 6.
C38_Witness ==
    /\ last.op = "increment_error_count"
    /\ last.count_before = high_error_count
    /\ ErrorCountOf(db, last.sid) = high_error_count + 1
    /\ \A p \in Callers : proc[p].pc = "idle"

\* C38: error_count never decreases, and with n concurrent callers it stays
\* below 5 + n.
C38_ErrorCountNeverDecreases ==
    /\ [](\A sid \in Sessions :
            ErrorCountOf(db, sid) < high_error_count + Cardinality(Callers))
    /\ [][\A sid \in Sessions : ErrorCountOf(db', sid) >= ErrorCountOf(db, sid)]_vars

\* the threshold rule applied to the decision and confidence the result of
\* the last call reports
ReportedRule ==
    ContinueByThreshold(last.decision, last.confidence,
                        db[last.sid][1].conversation_context.primary_product)

\* C39: the result of should_continue_with_current_agent is consistent: its
\* should_continue is what the threshold rule yields for the decision and
\* confidence of the same result, also when the model calls for the message
\* return different decisions.
C39_ResultConsistent ==
    last.op = "should_continue_with_current_agent" =>
        last.should_continue = ReportedRule

\* C39: the first analysis answered switch and the third continue, both
\* with confidence 1.0: the result reports decision continue with
\* confidence 1.0 and should_continue false.
C39_Witness ==
    /\ last.op = "should_continue_with_current_agent"
    /\ last.llm1 = [kind |-> "json", decision |-> "switch", confidence |-> 100]
    /\ last.llm3 = [kind |-> "json", decision |-> "continue", confidence |-> 100]
    /\ last.decision = "continue" /\ last.confidence = 100
    /\ ~last.should_continue

\* C39: when the first and the third analysis get the same reply from the
\* model, should_continue is what the rule yields for the reported values.
C39_ConsistentWhenRepliesAgree ==
    (last.op = "should_continue_with_current_agent" /\ last.llm1 = last.llm3)
    => last.should_continue = ReportedRule

====
